---- MODULE Spec2Model ----
(***************************************************************************)
(* Document ingestion and chunking of the multi-document RAG pipeline:     *)
(* Config.validate, DocumentLoader.load_all_documents, DocumentChunker     *)
(* and DocumentPipeline.process_documents.                                 *)
(*                                                                         *)
(* A text is a sequence of characters, each character a one-element        *)
(* string (a control character is written by its name, "NUL").  A piece    *)
(* of a text is never copied while it is being split: the splitter works   *)
(* on the start offsets of the pieces, which partition the text because    *)
(* the splitters are built with keep_separator=True.                       *)
(***************************************************************************)
EXTENDS Integers, Sequences, FiniteSets, TLC

VARIABLES
  env,          \* what Config.validate reads: the two API keys, the data directory
  files,        \* per configured document: does the file exist, what its loader yields
  run,          \* which run of process_documents is executing (1 or 2)
  pc,           \* position inside process_documents
  doc_i,        \* loop index of the for loop that is executing
  results,      \* load_all_documents: the dict doc_name -> raw units, in insertion order
  all_chunks,   \* process_all_documents: the chunks emitted so far
  returned,     \* the value process_documents returned, <<>> before it returns
  error,        \* the exception process_documents raised, "" when none
  first_run,    \* how the first run ended (kept to compare the second run with)
  call,         \* the arguments of the function called on its own
  ret,          \* what that call returned, <<>> before it returns
  message,      \* the errors listed in the message of the ValueError raised
  saved,        \* save_chunks: what processed_chunks.json holds
  embeddings,   \* run_full_pipeline: the embeddings generated
  pinecone_index, \* self.index of PineconeVectorStore: the vectors it holds
  uploaded,     \* upload_chunks: the running count of uploaded vectors
  upload_stats, \* what upload_chunks returned, <<>> before it returns
  first_index   \* what the index held when the first indexing run ended

vars == <<env, files, run, pc, doc_i, results, all_chunks, returned, error,
          first_run, call, ret, message,
          saved, embeddings, pinecone_index, uploaded, upload_stats,
          first_index>>

\* The state of the indexing steps of IndexingPipeline.run_full_pipeline.
index_vars == <<saved, embeddings, pinecone_index, uploaded, upload_stats,
          first_index>>

\* No indexing step has run and the index is empty.
NotIndexing ==
  /\ saved = <<>>
  /\ embeddings = <<>>
  /\ pinecone_index = {}
  /\ uploaded = 0
  /\ upload_stats = <<>>
  /\ first_index = {}

(***************************************************************************)
(* Characters.                                                             *)
(***************************************************************************)
\* The characters Python's \s and str.strip() treat as whitespace.
Whitespace == {" ", "\n", "\t"}

\* The characters of [\x00-\x08\x0b-\x0c\x0e-\x1f\x7f-\x9f] that are not whitespace.
ControlChars == {"NUL"}

\* The characters of \w: letters, digits and the underscore.
WordChars == {"a", "b", "c", "d", "e", "f", "g", "h", "i", "j", "k", "l", "m",
              "n", "o", "p", "q", "r", "s", "t", "u", "v", "w", "x", "y", "z",
              "A", "B", "C", "D", "E", "F", "G", "H", "I", "J", "K", "L", "M",
              "N", "O", "P", "Q", "R", "S", "T", "U", "V", "W", "X", "Y", "Z",
              "0", "1", "2", "3", "4", "5", "6", "7", "8", "9", "_"}

\* The function f on 1..n as a sequence.
AsSeq(f, n) == SubSeq(f, 1, n)

\* n copies of the character c.
Rep(c, n) == AsSeq([i \in 1..n |-> c], n)

\* str.strip(): the text without its leading and trailing whitespace.
strip(text) ==
  LET n == Len(text)
  IN IF \A i \in 1..n : text[i] \in Whitespace
       THEN <<>>
       ELSE LET lo == CHOOSE i \in 1..n :
                        /\ text[i] \notin Whitespace
                        /\ \A j \in 1..(i - 1) : text[j] \in Whitespace
                hi == CHOOSE i \in 1..n :
                        /\ text[i] \notin Whitespace
                        /\ \A j \in (i + 1)..n : text[j] \in Whitespace
            IN SubSeq(text, lo, hi)

\* DocumentChunker._clean_text: every run of whitespace becomes one space, then
\* the control characters are deleted, then the text is stripped.
_clean_text(text) ==
  LET n == Len(text)
      collapsed ==
        SelectSeq([i \in 1..n |->
                     IF text[i] \in Whitespace
                       THEN IF i > 1 /\ text[i - 1] \in Whitespace THEN "" ELSE " "
                       ELSE text[i]],
                  LAMBDA c : c # "")
      printable == SelectSeq(collapsed, LAMBDA c : c \notin ControlChars)
  IN strip(printable)

(***************************************************************************)
(* RecursiveCharacterTextSplitter, as DocumentChunker.__init__ configures  *)
(* it: length_function=len, keep_separator=True, strip_whitespace=True,    *)
(* separators taken literally.                                             *)
(***************************************************************************)
\* Does the separator sep stand in text at offset i.
SepAt(text, sep, i) ==
  /\ i + Len(sep) - 1 <= Len(text)
  /\ \A k \in 1..Len(sep) : text[i + k - 1] = sep[k]

\* re.search(re.escape(sep), text).
Contains(text, sep) == \E i \in 1..Len(text) : SepAt(text, sep, i)

\* Is offset i the start of a match of re.split(sep).  Matches are taken left to
\* right and do not overlap: inside a run of one repeated character a separator
\* made of that character ("\n\n") matches at every Len(sep)-th offset of the
\* run; the other configured separators cannot overlap themselves, so each of
\* their occurrences is a match.
IsMatchStart(text, sep, i) ==
  /\ SepAt(text, sep, i)
  /\ \/ Len(sep) = 1
     \/ \E k \in 1..Len(sep) : sep[k] # sep[1]
     \/ LET runStart == CHOOSE j \in 1..i :
                          /\ \A m \in j..i : text[m] = sep[1]
                          /\ (j = 1 \/ text[j - 1] # sep[1])
        IN (i - runStart) % Len(sep) = 0

\* _split_text_with_regex with keep_separator=True: the start offsets of the
\* non-empty pieces, in order.  Every match of the separator starts a piece (the
\* separator stays at the head of the piece it precedes); the empty separator
\* splits into single characters.
_split_text_with_regex(text, sep) ==
  LET n == Len(text)
  IN IF sep = <<>>
       THEN AsSeq([i \in 1..n |-> i], n)
       ELSE SelectSeq([i \in 1..n |-> i],
                      LAMBDA i : i = 1 \/ IsMatchStart(text, sep, i))

\* Offset of piece k of a text of length n cut at the offsets st; piece Len(st)+1
\* stands for the end of the text.
Off(st, n, k) == IF k > Len(st) THEN n + 1 ELSE st[k]

\* _join_docs with an empty joining separator: the pieces s..e-1 joined and
\* stripped; nothing when the result is empty.
_join_docs(text, st, s, e) ==
  LET doc == strip(SubSeq(text, Off(st, Len(text), s), Off(st, Len(text), e) - 1))
  IN IF doc = <<>> THEN <<>> ELSE <<doc>>

\* _merge_splits over the pieces s..hi, current_doc being empty before piece s.
\* p is the first piece that does not fit behind the pieces collected since s;
\* the collected pieces are emitted and dropped from the front until what is
\* left is no longer than the overlap and leaves room for p.
RECURSIVE _merge_splits(_, _, _, _, _, _)
_merge_splits(text, st, s, hi, chunk_size, chunk_overlap) ==
  LET n == Len(text)
      Over(p) == Off(st, n, p + 1) - Off(st, n, s) > chunk_size
  IN IF ~ \E p \in (s + 1)..hi : Over(p)
       THEN _join_docs(text, st, s, hi + 1)
       ELSE LET p == CHOOSE p \in (s + 1)..hi :
                       Over(p) /\ \A q \in (s + 1)..(p - 1) : ~Over(q)
                Pop(q) == LET total == Off(st, n, p) - Off(st, n, q)
                              len == Off(st, n, p + 1) - Off(st, n, p)
                          IN \/ total > chunk_overlap
                             \/ (total + len > chunk_size /\ total > 0)
                s2 == CHOOSE q \in s..p :
                        ~Pop(q) /\ \A r \in s..(q - 1) : Pop(r)
            IN _join_docs(text, st, s, p)
                 \o _merge_splits(text, st, s2, hi, chunk_size, chunk_overlap)

\* RecursiveCharacterTextSplitter._split_text: the separator is the first of the
\* list that is empty or occurs in the text, else the last one; pieces shorter
\* than chunk_size are merged, a longer piece is split again with the
\* separators that follow, or emitted as it is when none follows.
RECURSIVE _split_text(_, _, _, _)
RECURSIVE SplitPieces(_, _, _, _, _, _)
SplitPieces(text, st, from, new_separators, chunk_size, chunk_overlap) ==
  LET n == Len(text)
      k == Len(st)
      Good(j) == Off(st, n, j + 1) - Off(st, n, j) < chunk_size
  IN IF from > k THEN <<>>
     ELSE IF \A j \in from..k : Good(j)
       THEN _merge_splits(text, st, from, k, chunk_size, chunk_overlap)
       ELSE LET b == CHOOSE j \in from..k :
                       ~Good(j) /\ \A m \in from..(j - 1) : Good(m)
                s == SubSeq(text, Off(st, n, b), Off(st, n, b + 1) - 1)
            IN (IF b > from
                  THEN _merge_splits(text, st, from, b - 1, chunk_size, chunk_overlap)
                  ELSE <<>>)
               \o (IF new_separators = <<>>
                     THEN <<s>>
                     ELSE _split_text(s, new_separators, chunk_size, chunk_overlap))
               \o SplitPieces(text, st, b + 1, new_separators, chunk_size, chunk_overlap)

_split_text(text, separators, chunk_size, chunk_overlap) ==
  LET Hit(i) == separators[i] = <<>> \/ Contains(text, separators[i])
      found == \E i \in 1..Len(separators) : Hit(i)
      idx == IF found
               THEN CHOOSE i \in 1..Len(separators) :
                      Hit(i) /\ \A j \in 1..(i - 1) : ~Hit(j)
               ELSE Len(separators)
      separator == separators[idx]
      new_separators == IF found /\ separator # <<>>
                          THEN SubSeq(separators, idx + 1, Len(separators))
                          ELSE <<>>
  IN SplitPieces(text, _split_text_with_regex(text, separator), 1,
                 new_separators, chunk_size, chunk_overlap)

(***************************************************************************)
(* Config.                                                                 *)
(***************************************************************************)
PDF_CHUNK_SIZE == 1800
DOCX_CHUNK_SIZE == 1500
EXCEL_CHUNK_SIZE == 500

\* Config.get_document_paths: the logical names in registration order, and the
\* file name (Path.name) of each.
DocNames == <<"eu_ai_act", "attention", "deepseek", "inflation">>

FileName(doc_name) ==
  CASE doc_name = "eu_ai_act" ->
    <<"E", "U", " ", "A", "I", " ", "A", "c", "t", " ", "D", "o", "c", ".",
      "d", "o", "c", "x">>
    [] doc_name = "attention" ->
    <<"A", "t", "t", "e", "n", "t", "i", "o", "n", "_", "i", "s", "_", "a",
      "l", "l", "_", "y", "o", "u", "_", "n", "e", "e", "d", ".", "p", "d",
      "f">>
    [] doc_name = "deepseek" ->
    <<"D", "e", "e", "p", "s", "e", "e", "k", "-", "r", "1", ".", "p", "d",
      "f">>
    [] doc_name = "inflation" ->
    <<"I", "n", "f", "l", "a", "t", "i", "o", "n", " ", "C", "a", "l", "c",
      "u", "l", "a", "t", "o", "r", ".", "x", "l", "s", "x">>

\* Path.suffix: the file name from its last dot on.
suffix(name) ==
  LET dots == {i \in 1..Len(name) : name[i] = "."}
  IN IF dots = {} THEN <<>>
     ELSE SubSeq(name, CHOOSE i \in dots : \A j \in dots : j <= i, Len(name))

\* One line of the message of Config.validate; names holds the documents the
\* line lists.
ConfigError(text, names) == [text |-> text, names |-> names]

\* missing_docs = [name for name, path in docs.items() if not path.exists()].
missing_docs(f) == SelectSeq(DocNames, LAMBDA d : ~f[d].exists)

\* Mutant of Config_errors: the documents are not checked.
Config_errors_no_documents(e, f) ==
  (IF ~e.GITHUB_TOKEN
     THEN <<ConfigError("GITHUB_TOKEN not set in .env", <<>>)>> ELSE <<>>)
  \o (IF ~e.PINECONE_API_KEY
        THEN <<ConfigError("PINECONE_API_KEY not set in .env", <<>>)>> ELSE <<>>)
  \o (IF ~e.DATA_DIR
        THEN <<ConfigError("Data directory not found", <<>>)>> ELSE <<>>)

\* Mutant of Config_errors: validation stops at the first problem it finds.
Config_errors_first_only(e, f) ==
  IF ~e.GITHUB_TOKEN THEN <<ConfigError("GITHUB_TOKEN not set in .env", <<>>)>>
  ELSE IF ~e.PINECONE_API_KEY
    THEN <<ConfigError("PINECONE_API_KEY not set in .env", <<>>)>>
  ELSE IF ~e.DATA_DIR THEN <<ConfigError("Data directory not found", <<>>)>>
  ELSE IF missing_docs(f) # <<>>
    THEN <<ConfigError("Missing documents", missing_docs(f))>>
  ELSE <<>>

\* Config.validate: the aggregated list of configuration errors.
Config_errors(e, f) ==
  (IF ~e.GITHUB_TOKEN
     THEN <<ConfigError("GITHUB_TOKEN not set in .env", <<>>)>> ELSE <<>>)
  \o (IF ~e.PINECONE_API_KEY
        THEN <<ConfigError("PINECONE_API_KEY not set in .env", <<>>)>> ELSE <<>>)
  \o (IF ~e.DATA_DIR
        THEN <<ConfigError("Data directory not found", <<>>)>> ELSE <<>>)
  \o (IF missing_docs(f) # <<>>
        THEN <<ConfigError("Missing documents", missing_docs(f))>> ELSE <<>>)

(***************************************************************************)
(* DocumentChunker.                                                        *)
(***************************************************************************)
pdf_separators ==
  << <<"\n", "\n">>,
     <<"\n", "F", "i", "g", "u", "r", "e">>,
     <<"\n", "R", "e", "f", "e", "r", "e", "n", "c", "e", "s">>,
     <<"\n">>, <<".", " ">>, <<" ">>, <<>> >>
docx_separators == << <<"\n">>, <<".", " ">>, <<" ">> >>
excel_separators == << <<"\n">>, <<",", " ">>, <<" ">> >>

pdf_splitter(text) == _split_text(text, pdf_separators, PDF_CHUNK_SIZE, 200)
docx_splitter(text) == _split_text(text, docx_separators, DOCX_CHUNK_SIZE, 200)
excel_splitter(text) == _split_text(text, excel_separators, EXCEL_CHUNK_SIZE, 50)

\* dict.get(key, default).
Get(d, key, default) == IF key \in DOMAIN d THEN d[key] ELSE default

\* The characters a digest and an index are written with.
HexDigits == <<"0", "1", "2", "3", "4", "5", "6", "7", "8", "9",
               "a", "b", "c", "d", "e", "f">>

\* str(n) for n >= 0.
RECURSIVE str(_)
str(n) == IF n < 10 THEN <<HexDigits[n + 1]>>
          ELSE str(n \div 10) \o <<HexDigits[(n % 10) + 1]>>

\* The characters texts are made of, in a fixed order (a character's place in
\* it stands for its encoding).
Alphabet == <<" ", "\n", "\t", "NUL", ".", ",", ":", "-", "a", "b", "c", "d",
              "e", "f", "g", "h", "i", "A", "B", "1", "2", "_">>
Ord == [c \in {Alphabet[k] : k \in 1..Len(Alphabet)} |->
          CHOOSE k \in 1..Len(Alphabet) : Alphabet[k] = c]

\* hashlib.md5(text.encode()): MD5 itself is not reproduced; the digest is
\* modelled by a mixing function that, like MD5, depends on the whole text,
\* character by character and position by position, and on nothing else.  Its
\* value is the pair of the two 16-bit halves of the first 32 bits.
RECURSIVE Mix(_, _, _)
Mix(text, lo, hi) ==
  IF lo > hi THEN <<5381, 977>>
  ELSE IF lo = hi
    THEN <<(Ord[text[lo]] * 257 + lo * 131 + 977) % 65536,
           (Ord[text[lo]] * 911 + lo * 59 + 5381) % 65536>>
  ELSE LET mid == (lo + hi) \div 2
           l == Mix(text, lo, mid)
           r == Mix(text, mid + 1, hi)
       IN <<(l[1] * 31 + r[1] * 257 + r[2] + 7) % 65536,
            (l[2] * 37 + r[2] * 911 + l[1] + 3) % 65536>>
md5(text) == Mix(text, 1, Len(text))

\* hexdigest()[:8]: eight hexadecimal digits.
hexdigest8(h) ==
  [k \in 1..8 |-> HexDigits[((h[IF k <= 4 THEN 1 ELSE 2]
                               \div (16 ^ (3 - ((k - 1) % 4)))) % 16) + 1]]

\* Mutant of source_clean: the hyphen is not kept, re.sub(r'[^\w]', '_', ...).
source_clean_no_hyphen(source) ==
  [i \in 1..Len(source) |-> IF source[i] \in WordChars THEN source[i] ELSE "_"]

\* re.sub(r'[^\w\-]', '_', source.replace('.', '_')).
source_clean(source) ==
  LET dotless == [i \in 1..Len(source) |->
                    IF source[i] = "." THEN "_" ELSE source[i]]
  IN [i \in 1..Len(source) |->
        IF dotless[i] \in WordChars \cup {"-"} THEN dotless[i] ELSE "_"]

\* Mutant of _generate_chunk_id: the digest is salted per process, as Python's
\* built-in hash() is.
_generate_chunk_id_salted(text, source, index) ==
  source_clean(source) \o <<"_">> \o str(index) \o <<"_">>
    \o hexdigest8(<<(md5(text)[1] + run) % 65536, md5(text)[2]>>)

\* DocumentChunker._generate_chunk_id: f"{source_clean}_{index}_{text_hash}".
_generate_chunk_id(text, source, index) ==
  source_clean(source) \o <<"_">> \o str(index) \o <<"_">> \o hexdigest8(md5(text))

\* Mutant of pdf_chunk: the page is left out of the metadata.
pdf_chunk_no_page(split_text, doc_chunk, doc_name, chunk_index) ==
  [chunk_id |-> _generate_chunk_id(split_text, doc_chunk.source, chunk_index),
   text |-> split_text,
   metadata |-> [source |-> doc_chunk.source,
                 doc_name |-> doc_name,
                 doc_type |-> "pdf",
                 chunk_index |-> chunk_index,
                 char_count |-> Len(split_text)]]

\* The ProcessedChunk _chunk_pdf appends for one split.
pdf_chunk(split_text, doc_chunk, doc_name, chunk_index) ==
  [chunk_id |-> _generate_chunk_id(split_text, doc_chunk.source, chunk_index),
   text |-> split_text,
   metadata |-> [source |-> doc_chunk.source,
                 doc_name |-> doc_name,
                 doc_type |-> "pdf",
                 page |-> Get(doc_chunk, "page", "unknown"),
                 chunk_index |-> chunk_index,
                 char_count |-> Len(split_text)]]

\* Mutant of docx_chunk: char_count is taken from the trimmed text.
docx_chunk_trimmed_count(split_text, doc_chunk, doc_name, chunk_index) ==
  [chunk_id |-> _generate_chunk_id(split_text, doc_chunk.source, chunk_index),
   text |-> split_text,
   metadata |-> [source |-> doc_chunk.source,
                 doc_name |-> doc_name,
                 doc_type |-> "docx",
                 section |-> Get(doc_chunk, "section", "unknown"),
                 chunk_index |-> chunk_index,
                 char_count |-> Len(strip(split_text))]]

\* The ProcessedChunk _chunk_docx appends for one split.
docx_chunk(split_text, doc_chunk, doc_name, chunk_index) ==
  [chunk_id |-> _generate_chunk_id(split_text, doc_chunk.source, chunk_index),
   text |-> split_text,
   metadata |-> [source |-> doc_chunk.source,
                 doc_name |-> doc_name,
                 doc_type |-> "docx",
                 section |-> Get(doc_chunk, "section", "unknown"),
                 chunk_index |-> chunk_index,
                 char_count |-> Len(split_text)]]

\* The ProcessedChunk _chunk_excel appends for one split.
excel_chunk(split_text, doc_chunk, doc_name, chunk_index) ==
  [chunk_id |-> _generate_chunk_id(split_text, doc_chunk.source, chunk_index),
   text |-> split_text,
   metadata |-> [source |-> doc_chunk.source,
                 doc_name |-> doc_name,
                 doc_type |-> "excel",
                 sheet |-> Get(doc_chunk, "sheet", "unknown"),
                 row |-> Get(doc_chunk, "row", "unknown"),
                 chunk_index |-> chunk_index,
                 char_count |-> Len(split_text)]]

\* Mutant of pdf_splits: the filter uses the floor of the spreadsheet chunker.
RECURSIVE pdf_splits_floor20(_, _, _, _, _)
pdf_splits_floor20(splits, k, doc_chunk, doc_name, chunk_index) ==
  IF k > Len(splits) THEN <<>>
  ELSE IF Len(strip(splits[k])) < 20
    THEN pdf_splits_floor20(splits, k + 1, doc_chunk, doc_name, chunk_index)
    ELSE <<pdf_chunk(splits[k], doc_chunk, doc_name, chunk_index)>>
           \o pdf_splits_floor20(splits, k + 1, doc_chunk, doc_name, chunk_index + 1)

\* The inner loop of _chunk_pdf over the splits of one page, from split k on: a
\* split whose stripped length is under 50 is skipped, every other split is
\* appended and advances chunk_index.
RECURSIVE pdf_splits(_, _, _, _, _)
pdf_splits(splits, k, doc_chunk, doc_name, chunk_index) ==
  IF k > Len(splits) THEN <<>>
  ELSE IF Len(strip(splits[k])) < 50
    THEN pdf_splits(splits, k + 1, doc_chunk, doc_name, chunk_index)
    ELSE <<pdf_chunk(splits[k], doc_chunk, doc_name, chunk_index)>>
           \o pdf_splits(splits, k + 1, doc_chunk, doc_name, chunk_index + 1)

\* The outer loop of _chunk_pdf from raw unit u on; chunk_index runs on from
\* one page to the next.
RECURSIVE pdf_units(_, _, _, _)
pdf_units(doc_chunks, u, doc_name, chunk_index) ==
  IF u > Len(doc_chunks) THEN <<>>
  ELSE LET text == _clean_text(doc_chunks[u].text)
           emitted == pdf_splits(pdf_splitter(text), 1, doc_chunks[u], doc_name,
                                 chunk_index)
       IN emitted \o pdf_units(doc_chunks, u + 1, doc_name,
                               chunk_index + Len(emitted))

\* Mutant of _chunk_pdf: chunk_index runs on from the chunks of the documents
\* processed before.
_chunk_pdf_shared_counter(doc_chunks, doc_name) ==
  pdf_units(doc_chunks, 1, doc_name, Len(all_chunks))

\* DocumentChunker._chunk_pdf.
_chunk_pdf(doc_chunks, doc_name) == pdf_units(doc_chunks, 1, doc_name, 0)

\* The inner loop of _chunk_docx over the splits of one section.
RECURSIVE docx_splits(_, _, _, _, _)
docx_splits(splits, k, doc_chunk, doc_name, chunk_index) ==
  IF k > Len(splits) THEN <<>>
  ELSE IF Len(strip(splits[k])) < 50
    THEN docx_splits(splits, k + 1, doc_chunk, doc_name, chunk_index)
    ELSE <<docx_chunk(splits[k], doc_chunk, doc_name, chunk_index)>>
           \o docx_splits(splits, k + 1, doc_chunk, doc_name, chunk_index + 1)

\* The outer loop of _chunk_docx from raw unit u on.
RECURSIVE docx_units(_, _, _, _)
docx_units(doc_chunks, u, doc_name, chunk_index) ==
  IF u > Len(doc_chunks) THEN <<>>
  ELSE LET text == _clean_text(doc_chunks[u].text)
           emitted == docx_splits(docx_splitter(text), 1, doc_chunks[u], doc_name,
                                  chunk_index)
       IN emitted \o docx_units(doc_chunks, u + 1, doc_name,
                                chunk_index + Len(emitted))

\* DocumentChunker._chunk_docx.
_chunk_docx(doc_chunks, doc_name) == docx_units(doc_chunks, 1, doc_name, 0)

\* The inner loop of _chunk_excel over the splits of one raw unit: chunk_index
\* is the position of the raw unit, the same for every split of it.
RECURSIVE excel_splits(_, _, _, _, _)
excel_splits(splits, k, doc_chunk, doc_name, chunk_index) ==
  IF k > Len(splits) THEN <<>>
  ELSE IF Len(strip(splits[k])) < 20
    THEN excel_splits(splits, k + 1, doc_chunk, doc_name, chunk_index)
    ELSE <<excel_chunk(splits[k], doc_chunk, doc_name, chunk_index)>>
           \o excel_splits(splits, k + 1, doc_chunk, doc_name, chunk_index)

\* The outer loop of _chunk_excel, for chunk_index, doc_chunk in
\* enumerate(doc_chunks): a raw unit is split only when its cleaned text is
\* longer than EXCEL_CHUNK_SIZE.
RECURSIVE excel_units(_, _, _)
excel_units(doc_chunks, u, doc_name) ==
  IF u > Len(doc_chunks) THEN <<>>
  ELSE LET text == _clean_text(doc_chunks[u].text)
           splits == IF Len(text) > EXCEL_CHUNK_SIZE
                       THEN excel_splitter(text) ELSE <<text>>
       IN excel_splits(splits, 1, doc_chunks[u], doc_name, u - 1)
            \o excel_units(doc_chunks, u + 1, doc_name)

\* DocumentChunker._chunk_excel.
_chunk_excel(doc_chunks, doc_name) == excel_units(doc_chunks, 1, doc_name)

\* Mutant of extend: the new chunks are put in front.
extend_in_front(chunks, more) == more \o chunks

\* all_chunks.extend(chunks).
extend(chunks, more) == chunks \o more

\* The body of the loop of process_all_documents for one entry of loaded_docs:
\* the chunks it adds to all_chunks.
chunks_of(doc_name, doc_chunks) ==
  IF doc_chunks = <<>> THEN <<>>
  ELSE LET doc_type == Get(doc_chunks[1], "doc_type", "")
       IN IF doc_type = "pdf" THEN _chunk_pdf(doc_chunks, doc_name)
          ELSE IF doc_type = "docx" THEN _chunk_docx(doc_chunks, doc_name)
          ELSE IF doc_type = "excel" THEN _chunk_excel(doc_chunks, doc_name)
          ELSE <<>>

(***************************************************************************)
(* PineconeVectorStore.upload_chunks (the stored metadata) and              *)
(* RetrievedChunk.                                                          *)
(***************************************************************************)
\* {**chunk.metadata, "text": chunk.text}: the metadata stored with a vector.
stored_metadata(chunk) ==
  [k \in DOMAIN chunk.metadata \cup {"text"} |->
     IF k = "text" THEN chunk.text ELSE chunk.metadata[k]]

\* RAGSystem.retrieve: the RetrievedChunk built from a match's metadata.
RetrievedChunk(metadata) ==
  [text |-> Get(metadata, "text", <<>>),
   source |-> Get(metadata, "source", "unknown"),
   doc_type |-> Get(metadata, "doc_type", "unknown"),
   metadata |-> metadata]

\* RetrievedChunk.get_citation: the parts of the citation string, the source
\* first; the bare source is <<source>>.
get_citation(self) ==
  IF self.doc_type = "pdf"
    THEN <<self.source, "page", Get(self.metadata, "page", "unknown")>>
  ELSE IF self.doc_type = "docx"
    THEN <<self.source, "section", Get(self.metadata, "section", "unknown")>>
  ELSE IF self.doc_type = "excel"
    THEN <<self.source, "sheet", Get(self.metadata, "sheet", "unknown"),
           "row", Get(self.metadata, "row", "unknown")>>
  ELSE <<self.source>>

(***************************************************************************)
(* The documents on disk.  What a loader extracts from a file is given with *)
(* the file: a PDF page has at least 50 characters, a DOCX section more     *)
(* than 100, a spreadsheet unit is a generated description.                 *)
(***************************************************************************)
TokenExtra == 100
ShortWords == 6
ManyWords == 120
SentenceLen == 700

w9 == <<"a", "b", "c", "d", "e", "f", "g", "h", "i">>

\* k copies of w joined by sep.
Join(w, k, sep) ==
  LET step == Len(w) + Len(sep)
      n == k * step - Len(sep)
  IN AsSeq([i \in 1..n |->
              LET r == (i - 1) % step
              IN IF r < Len(w) THEN w[r + 1] ELSE sep[r - Len(w) + 1]], n)

pdf_page(name, page, text) ==
  [text |-> text, page |-> page, source |-> FileName(name), doc_type |-> "pdf"]
docx_section(name, section, text) ==
  [text |-> text, section |-> section, source |-> FileName(name),
   doc_type |-> "docx"]
excel_summary(name, sheet, text) ==
  [text |-> text, sheet |-> sheet, row |-> "summary", source |-> FileName(name),
   doc_type |-> "excel"]
excel_year(name, sheet, row, year, text) ==
  [text |-> text, sheet |-> sheet, row |-> row, year |-> year,
   source |-> FileName(name), doc_type |-> "excel"]
excel_decade(name, sheet, row, decade, text) ==
  [text |-> text, sheet |-> sheet, row |-> row, decade |-> decade,
   source |-> FileName(name), doc_type |-> "excel"]

\* The contents each configured file can have, as the raw units its loader
\* returns.
eu_ai_act_contents ==
  { << docx_section("eu_ai_act", 0, Join(w9, 2 * ShortWords + 1, <<"\n">>)),
       docx_section("eu_ai_act", 2, <<"A", "B", ":", "\n">>
                                      \o Rep("c", DOCX_CHUNK_SIZE + TokenExtra)) >>,
    << docx_section("eu_ai_act", 1, Join(Rep("d", SentenceLen), 4, <<".", " ">>)),
       docx_section("eu_ai_act", 4, <<"a">> \o Rep(" ", ManyWords) \o <<"b">>) >> }

attention_contents ==
  { << pdf_page("attention", 1, Rep("a", PDF_CHUNK_SIZE + TokenExtra)),
       pdf_page("attention", 2,
                <<"NUL">> \o Join(w9, ShortWords, <<"\n", "\n">>)) >>,
    << pdf_page("attention", 1,
                Rep("a", PDF_CHUNK_SIZE - 10) \o <<" ">> \o Rep("b", 30)),
       pdf_page("attention", 3, Join(w9, 2 * ManyWords, <<" ">>)) >> }

deepseek_contents ==
  { << pdf_page("deepseek", 1,
                Join(Rep("e", SentenceLen + 298), 3, <<".", " ">>)) >>,
    << pdf_page("deepseek", 2, Join(w9, ShortWords + 1, <<" ">>)),
       pdf_page("deepseek", 3, Join(w9, ShortWords + 1, <<" ">>)) >> }

inflation_contents ==
  { << excel_summary("inflation", "CPI", Join(w9, 2 * ShortWords + 3, <<"\n">>)),
       excel_year("inflation", "CPI", "2", 1950, Join(w9, ManyWords, <<" ">>)),
       excel_decade("inflation", "CPI", "decade_1950", 1950,
                    Join(w9, 2 * ShortWords, <<" ">>)) >>,
    << excel_summary("inflation", "CPI", Join(w9, 2 * ShortWords + 3, <<"\n">>)),
       excel_year("inflation", "CPI", "2", 1951,
                  <<"a", ":", " ">> \o Rep("1", EXCEL_CHUNK_SIZE + TokenExtra)
                    \o <<",", " ", "b">>) >> }

Contents(name) ==
  CASE name = "eu_ai_act" -> eu_ai_act_contents
    [] name = "attention" -> attention_contents
    [] name = "deepseek" -> deepseek_contents
    [] name = "inflation" -> inflation_contents

\* The states of one configured file: missing, present but unreadable (its
\* loader raises), or present with one of its contents.
FileStates(name) ==
  {[exists |-> FALSE, readable |-> FALSE, units |-> <<>>],
   [exists |-> TRUE, readable |-> FALSE, units |-> <<>>]}
  \cup {[exists |-> TRUE, readable |-> TRUE, units |-> u] : u \in Contents(name)}

DocNameSet == {DocNames[i] : i \in 1..Len(DocNames)}

(***************************************************************************)
(* DocumentLoader.load_all_documents and DocumentPipeline.process_documents *)
(***************************************************************************)
\* DocumentLoader.loaders: the loader registered for a suffix, "" when none.
loaders(sfx) ==
  IF sfx = <<".", "p", "d", "f">> THEN "PDFLoader"
  ELSE IF sfx = <<".", "d", "o", "c", "x">> THEN "DOCXLoader"
  ELSE IF sfx = <<".", "x", "l", "s", "x">> THEN "ExcelLoader"
  ELSE ""

\* Mutant of load_one: a document whose loader raises is not recorded.
load_one_unrecorded(res, doc_name, f) ==
  IF loaders(suffix(FileName(doc_name))) = "" THEN res
  ELSE IF f.exists /\ f.readable
    THEN Append(res, <<doc_name, f.units>>)
    ELSE res

\* One iteration of the loop of load_all_documents: the dict after it.
load_one(res, doc_name, f) ==
  IF loaders(suffix(FileName(doc_name))) = "" THEN res
  ELSE IF f.exists /\ f.readable
    THEN Append(res, <<doc_name, f.units>>)
    ELSE Append(res, <<doc_name, <<>> >>)

Init ==
  /\ env \in [GITHUB_TOKEN : BOOLEAN, PINECONE_API_KEY : BOOLEAN, DATA_DIR : BOOLEAN]
  /\ files \in [eu_ai_act : FileStates("eu_ai_act"),
                  attention : FileStates("attention"),
                  deepseek : FileStates("deepseek"),
                  inflation : FileStates("inflation")]
  /\ ~env.DATA_DIR => \A d \in DocNameSet : ~files[d].exists
  /\ run = 1
  /\ pc = "start"
  /\ doc_i = 1
  /\ results = <<>>
  /\ all_chunks = <<>>
  /\ returned = <<>>
  /\ error = ""
  /\ first_run = [pc |-> "", error |-> "", returned |-> <<>>]
  /\ call = <<>>
  /\ ret = <<>>
  /\ message = <<>>
  /\ NotIndexing

\* load_all_documents, its first statement: Config.validate().
Validate ==
  /\ pc = "start"
  /\ IF Config_errors(env, files) = <<>>
       THEN pc' = "load" /\ error' = error /\ message' = message
       ELSE /\ pc' = "raised"
            /\ error' = "ValueError"
            /\ message' = Config_errors(env, files)
  /\ UNCHANGED <<env, files, run, doc_i, results, all_chunks, returned, first_run,
                 call, ret, index_vars>>

\* load_all_documents, one iteration of for doc_name, doc_path in doc_paths.items().
LoadDoc ==
  /\ pc = "load"
  /\ results' = load_one(results, DocNames[doc_i], files[DocNames[doc_i]])
  /\ IF doc_i = Len(DocNames)
       THEN pc' = "chunk" /\ doc_i' = 1
       ELSE pc' = pc /\ doc_i' = doc_i + 1
  /\ UNCHANGED <<env, files, run, all_chunks, returned, error, first_run, call, ret, message,
                 index_vars>>

\* process_all_documents, one iteration of for doc_name, doc_chunks in
\* loaded_docs.items().
ChunkDoc ==
  /\ pc = "chunk"
  /\ doc_i <= Len(results)
  /\ all_chunks' = extend(all_chunks, chunks_of(results[doc_i][1], results[doc_i][2]))
  /\ IF doc_i = Len(results)
       THEN pc' = "stats" /\ doc_i' = 1
       ELSE pc' = pc /\ doc_i' = doc_i + 1
  /\ UNCHANGED <<env, files, run, results, returned, error, first_run, call, ret, message,
                 index_vars>>

\* process_documents after chunking: get_chunking_stats returns {} for no
\* chunks, and _print_stats reads stats['total_chunks'].
Stats ==
  /\ pc = "stats"
  /\ IF all_chunks = <<>>
       THEN pc' = "raised" /\ error' = "KeyError" /\ returned' = returned
       ELSE pc' = "done" /\ error' = error /\ returned' = all_chunks
  /\ UNCHANGED <<env, files, run, doc_i, results, all_chunks, first_run, call, ret, message,
                 index_vars>>

\* A second full run of the pipeline over the same files and configuration.
Rerun ==
  /\ run = 1
  /\ pc \in {"done", "raised"}
  /\ first_run' = [pc |-> pc, error |-> error, returned |-> returned]
  /\ run' = 2
  /\ pc' = "start"
  /\ doc_i' = 1
  /\ results' = <<>>
  /\ all_chunks' = <<>>
  /\ returned' = <<>>
  /\ error' = ""
  /\ message' = <<>>
  /\ UNCHANGED <<env, files, call, ret, index_vars>>

\* One run of the pipeline.
Next == Validate \/ LoadDoc \/ ChunkDoc \/ Stats

Spec == Init /\ [][Next]_vars

\* Two runs of the pipeline, one after the other.
NextTwice == Validate \/ LoadDoc \/ ChunkDoc \/ Stats \/ Rerun

SpecTwice == Init /\ [][NextTwice]_vars

(***************************************************************************)
(* DocumentChunker._generate_chunk_id called on its own.                    *)
(***************************************************************************)
MaxSourceLen == 2
MaxTextLen == 2
MaxIndex == 10
MaxCalls == 2

\* The sequences over a set of characters, up to a length.
SeqsUpTo(chars, n) == UNION {[1..k -> chars] : k \in 0..n}

\* The source names the function is called with: the configured file names and
\* short names over word characters, the hyphen, the dot and the space.
Sources ==
  {FileName(d) : d \in DocNameSet}
    \cup {AsSeq(f, Len(f)) : f \in SeqsUpTo({"a", "_", "-", ".", " "}, MaxSourceLen)}

Texts == {AsSeq(f, Len(f)) : f \in SeqsUpTo({"a", " "}, MaxTextLen)}

IdInit ==
  /\ call \in [text : Texts, source : Sources, index : 0..MaxIndex]
  /\ ret = <<>>
  /\ env = [GITHUB_TOKEN |-> TRUE, PINECONE_API_KEY |-> TRUE, DATA_DIR |-> TRUE]
  /\ files = [d \in DocNameSet |->
                [exists |-> FALSE, readable |-> FALSE, units |-> <<>>]]
  /\ run = 1
  /\ pc = "start"
  /\ doc_i = 1
  /\ results = <<>>
  /\ all_chunks = <<>>
  /\ returned = <<>>
  /\ error = ""
  /\ first_run = [pc |-> "", error |-> "", returned |-> <<>>]
  /\ message = <<>>
  /\ NotIndexing

\* One call of _generate_chunk_id(text, source, index), each from a process of
\* its own; ret collects what the calls returned.
GenerateChunkId ==
  /\ Len(ret) < MaxCalls
  /\ ret' = Append(ret, _generate_chunk_id(call.text, call.source, call.index))
  /\ run' = run + 1
  /\ UNCHANGED <<env, files, pc, doc_i, results, all_chunks, returned, error,
                 first_run, call, message, index_vars>>

IdNext == GenerateChunkId

IdSpec == IdInit /\ [][IdNext]_vars

(***************************************************************************)
(* IndexingPipeline.run_full_pipeline: process_documents, save_chunks,      *)
(* generate_embeddings, upload_chunks; and a second run of it.              *)
(***************************************************************************)
batch_size == 100

\* The embedding the API returns for a text; the vector itself is not
\* reproduced, it stands for the text it was computed from.
embedding(text) == [model |-> "text-embedding-3-small", of |-> md5(text)]

\* Mutant of vector: the id is taken per run.
vector_id_per_run(chunks, embs, j) ==
  [id |-> chunks[j].chunk_id \o <<"_">> \o str(run),
   values |-> embs[j],
   metadata |-> stored_metadata(chunks[j])]

\* The entry of batch_data built for chunks[j].
vector(chunks, embs, j) ==
  [id |-> chunks[j].chunk_id,
   values |-> embs[j],
   metadata |-> stored_metadata(chunks[j])]

\* The batch (start, end) of upload_chunks, as the positions start+1 .. end
\* of chunks; batch b is counted from 1.
batch_start(b) == (b - 1) * batch_size
batch_end(b, total) ==
  IF batch_start(b) + batch_size < total THEN batch_start(b) + batch_size ELSE total
n_batches(total) == (total + batch_size - 1) \div batch_size

\* index.upsert(vectors=batch_data) on the positions lo+1 .. hi: a vector
\* replaces the stored vector of the same id, the last of a batch wins.
upsert(stored, chunks, embs, lo, hi) ==
  {v \in stored : \A j \in (lo + 1)..hi : vector(chunks, embs, j).id # v.id}
  \cup {vector(chunks, embs, j) : j \in
          {j \in (lo + 1)..hi :
             \A later \in (j + 1)..hi :
               vector(chunks, embs, later).id # vector(chunks, embs, j).id}}

\* A vector an earlier build of another corpus left in the index.
stale_vector ==
  [id |-> <<"b", "a", "d", "_", "0">>,
   values |-> embedding(<<"b", "a", "d">>),
   metadata |-> [text |-> <<"b", "a", "d">>]]

\* IndexingPipeline() was constructed: Config.validate passed in the
\* constructors of EmbeddingGenerator and PineconeVectorStore, and the store
\* is connected to an index that is empty or holds vectors already.
IndexInit ==
  /\ env = [GITHUB_TOKEN |-> TRUE, PINECONE_API_KEY |-> TRUE, DATA_DIR |-> TRUE]
  /\ files \in [eu_ai_act : {f \in FileStates("eu_ai_act") : f.exists},
                  attention : {f \in FileStates("attention") : f.exists},
                  deepseek : {f \in FileStates("deepseek") : f.exists},
                  inflation : {f \in FileStates("inflation") : f.exists}]
  /\ pinecone_index \in {{}, {stale_vector}}
  /\ run = 1
  /\ pc = "start"
  /\ doc_i = 1
  /\ results = <<>>
  /\ all_chunks = <<>>
  /\ returned = <<>>
  /\ error = ""
  /\ first_run = [pc |-> "", error |-> "", returned |-> <<>>]
  /\ call = <<>>
  /\ ret = <<>>
  /\ message = <<>>
  /\ saved = <<>>
  /\ embeddings = <<>>
  /\ uploaded = 0
  /\ upload_stats = <<>>
  /\ first_index = {}

\* run_full_pipeline, after process_documents returned: save_chunks(chunks).
SaveChunks ==
  /\ pc = "done"
  /\ saved' = returned
  /\ pc' = "embed"
  /\ UNCHANGED <<env, files, run, doc_i, results, all_chunks, returned, error,
                 first_run, call, ret, message, embeddings, pinecone_index,
                 uploaded, upload_stats, first_index>>

\* generate_embeddings(texts): the embeddings of response.data for every batch,
\* one per text or, when a response holds fewer items than its batch, fewer;
\* or the API raises in some batch and generate_embeddings raises with it.
Embed ==
  /\ pc = "embed"
  /\ \/ /\ embeddings' = [k \in 1..Len(returned) |-> embedding(returned[k].text)]
        /\ pc' = "upload"
        /\ error' = error
     \/ /\ returned # <<>>
        /\ embeddings' = [k \in 1..(Len(returned) - 1) |->
                            embedding(returned[k].text)]
        /\ pc' = "upload"
        /\ error' = error
     \/ /\ embeddings' = embeddings
        /\ pc' = "raised"
        /\ error' = "APIError"
  /\ UNCHANGED <<env, files, run, doc_i, results, all_chunks, returned,
                 first_run, call, ret, message, saved, pinecone_index,
                 uploaded, upload_stats, first_index>>

\* Mutant of ClearIndex: the index is reset before the lengths are compared.
ClearIndex_before_length_check ==
  /\ pc = "upload"
  /\ pinecone_index' \in {{}, pinecone_index}
  /\ IF Len(returned) # Len(embeddings)
       THEN /\ pc' = "raised"
            /\ error' = "ValueError"
            /\ UNCHANGED <<uploaded, doc_i>>
       ELSE /\ uploaded' = 0
            /\ doc_i' = 1
            /\ pc' = IF n_batches(Len(returned)) = 0 THEN "verify" ELSE "upsert"
            /\ error' = error
  /\ UNCHANGED <<env, files, run, results, all_chunks, returned, first_run,
                 call, ret, message, saved, embeddings, upload_stats, first_index>>

\* upload_chunks up to its loop: the length check, then clear_index, which
\* deletes every vector or fails and reports it by printing only.
ClearIndex ==
  /\ pc = "upload"
  /\ IF Len(returned) # Len(embeddings)
       THEN /\ pc' = "raised"
            /\ error' = "ValueError"
            /\ UNCHANGED <<pinecone_index, uploaded, doc_i>>
       ELSE /\ pinecone_index' \in {{}, pinecone_index}
            /\ uploaded' = 0
            /\ doc_i' = 1
            /\ pc' = IF n_batches(Len(returned)) = 0 THEN "verify" ELSE "upsert"
            /\ error' = error
  /\ UNCHANGED <<env, files, run, results, all_chunks, returned, first_run,
                 call, ret, message, saved, embeddings, upload_stats, first_index>>

\* upload_chunks, one iteration of for start, end in iterator: the batch is
\* upserted, or upsert raises and upload_chunks raises with it.
UpsertBatch ==
  /\ pc = "upsert"
  /\ \/ /\ pinecone_index' = upsert(pinecone_index, returned, embeddings,
                                    batch_start(doc_i),
                                    batch_end(doc_i, Len(returned)))
        /\ uploaded' = uploaded + (batch_end(doc_i, Len(returned)) - batch_start(doc_i))
        /\ IF doc_i = n_batches(Len(returned))
             THEN pc' = "verify" /\ doc_i' = 1
             ELSE pc' = pc /\ doc_i' = doc_i + 1
        /\ error' = error
     \/ /\ pc' = "raised"
        /\ error' = "PineconeError"
        /\ UNCHANGED <<pinecone_index, uploaded, doc_i>>
  /\ UNCHANGED <<env, files, run, results, all_chunks, returned, first_run,
                 call, ret, message, saved, embeddings, upload_stats, first_index>>

\* upload_chunks after its loop: get_stats and the statistics returned.
VerifyUpload ==
  /\ pc = "verify"
  /\ upload_stats' = [uploaded |-> uploaded,
                      total_in_index |-> Cardinality(pinecone_index),
                      index_name |-> "multi-document-rag"]
  /\ pc' = "indexed"
  /\ UNCHANGED <<env, files, run, doc_i, results, all_chunks, returned, error,
                 first_run, call, ret, message, saved, embeddings, pinecone_index,
                 uploaded, first_index>>

\* build_rag_index run again over the same files, configuration and index.
Reindex ==
  /\ run = 1
  /\ pc = "indexed"
  /\ first_index' = pinecone_index
  /\ first_run' = [pc |-> pc, error |-> error, returned |-> returned]
  /\ run' = 2
  /\ pc' = "start"
  /\ doc_i' = 1
  /\ results' = <<>>
  /\ all_chunks' = <<>>
  /\ returned' = <<>>
  /\ error' = ""
  /\ message' = <<>>
  /\ saved' = saved
  /\ embeddings' = <<>>
  /\ uploaded' = 0
  /\ upload_stats' = <<>>
  /\ UNCHANGED <<env, files, call, ret, pinecone_index>>

IndexNext ==
  \/ Validate \/ LoadDoc \/ ChunkDoc \/ Stats
  \/ SaveChunks \/ Embed \/ ClearIndex \/ UpsertBatch \/ VerifyUpload
  \/ Reindex

IndexSpec == IndexInit /\ [][IndexNext]_vars

(***************************************************************************)
(* Functions called on their own: the pipeline is at rest meanwhile.        *)
(***************************************************************************)
pipeline_vars == <<env, files, run, pc, doc_i, results, all_chunks, returned,
                   error, first_run, message, index_vars>>

AtRest ==
  /\ env = [GITHUB_TOKEN |-> TRUE, PINECONE_API_KEY |-> TRUE, DATA_DIR |-> TRUE]
  /\ files = [d \in DocNameSet |->
                [exists |-> FALSE, readable |-> FALSE, units |-> <<>>]]
  /\ run = 1
  /\ pc = "start"
  /\ doc_i = 1
  /\ results = <<>>
  /\ all_chunks = <<>>
  /\ returned = <<>>
  /\ error = ""
  /\ first_run = [pc |-> "", error |-> "", returned |-> <<>>]
  /\ message = <<>>
  /\ NotIndexing

(***************************************************************************)
(* DocumentChunker._clean_text called on its own.                           *)
(***************************************************************************)
MaxCleanLen == 5

\* The strings _clean_text is called with: a letter, a space, a newline and a
\* control character, in every arrangement up to a length.
DirtyTexts ==
  {AsSeq(f, Len(f)) : f \in SeqsUpTo({"a", " ", "\n", "NUL"}, MaxCleanLen)}

CleanInit ==
  /\ call \in [text : DirtyTexts]
  /\ ret = <<>>
  /\ AtRest

\* One call of _clean_text(text).
CleanText ==
  /\ ret = <<>>
  /\ ret' = <<_clean_text(call.text)>>
  /\ UNCHANGED <<call, pipeline_vars>>

CleanNext == CleanText

CleanSpec == CleanInit /\ [][CleanNext]_vars

(***************************************************************************)
(* DOCXLoader.load called on its own, on the paragraphs of a document.      *)
(***************************************************************************)
UpperCase == {"A", "B"}
LowerCase == {"a", "b", "c", "d", "e", "f", "g", "h", "i"}

\* str.isupper: some cased character, and no lower-case one.
isupper(text) ==
  /\ \E i \in 1..Len(text) : text[i] \in UpperCase
  /\ \A i \in 1..Len(text) : text[i] \notin LowerCase

\* str.endswith(':').
endswith_colon(text) == Len(text) > 0 /\ text[Len(text)] = ":"

\* is_header = (text.isupper() or text.endswith(':')) and len(text) < 100.
is_header(text) == (isupper(text) \/ endswith_colon(text)) /\ Len(text) < 100

\* '\n'.join(current_section).
RECURSIVE join_lines(_)
join_lines(lines) ==
  IF lines = <<>> THEN <<>>
  ELSE IF Len(lines) = 1 THEN lines[1]
  ELSE lines[1] \o <<"\n">> \o join_lines(Tail(lines))

\* The unit DOCXLoader.load appends for a section.
docx_unit(section_text, section_num, file_name) ==
  [text |-> section_text, section |-> section_num, source |-> file_name,
   doc_type |-> "docx"]

\* Mutant of flush: a section is kept when it has 100 characters or more.
flush_from_100(chunks, current_section, section_num, file_name) ==
  IF Len(join_lines(current_section)) >= 100
    THEN Append(chunks, docx_unit(join_lines(current_section), section_num, file_name))
    ELSE chunks

\* Mutant of flush: a section is numbered by its place among the sections kept.
flush_renumbered(chunks, current_section, section_num, file_name) ==
  IF Len(join_lines(current_section)) > 100
    THEN Append(chunks, docx_unit(join_lines(current_section), Len(chunks), file_name))
    ELSE chunks

\* if len(section_text) > 100: chunks.append({...}).
flush(chunks, current_section, section_num, file_name) ==
  IF Len(join_lines(current_section)) > 100
    THEN Append(chunks, docx_unit(join_lines(current_section), section_num, file_name))
    ELSE chunks

\* The loop of DOCXLoader.load from paragraph k on, and the flush after it.
RECURSIVE docx_paragraphs(_, _, _, _, _, _)
docx_paragraphs(paragraphs, k, current_section, section_num, chunks, file_name) ==
  IF k > Len(paragraphs)
    THEN IF current_section # <<>>
           THEN flush(chunks, current_section, section_num, file_name)
           ELSE chunks
  ELSE LET text == strip(paragraphs[k])
       IN IF text = <<>>
            THEN docx_paragraphs(paragraphs, k + 1, current_section, section_num,
                                 chunks, file_name)
          ELSE IF is_header(text) /\ current_section # <<>>
            THEN docx_paragraphs(paragraphs, k + 1, <<text>>, section_num + 1,
                                 flush(chunks, current_section, section_num,
                                       file_name),
                                 file_name)
          ELSE docx_paragraphs(paragraphs, k + 1, Append(current_section, text),
                               section_num, chunks, file_name)

\* DOCXLoader.load(file_path), given the paragraphs of the document.
DOCXLoader_load(paragraphs, file_name) ==
  docx_paragraphs(paragraphs, 1, <<>>, 0, <<>>, file_name)

MaxParagraphs == 4
BodyLen == 60

\* The paragraphs a document is made of: empty, blank, a short body line, a
\* body of BodyLen characters (two of them make a section of more than 100),
\* an upper-case header, a header ending with a colon with blanks around it,
\* an upper-case line of 100 characters (too long for a header and a section
\* of exactly 100 characters on its own).
ParagraphTexts ==
  { <<>>,
    <<" ", " ">>,
    <<"a", "b">>,
    Rep("c", BodyLen),
    <<"A", "B">>,
    <<" ", "a", ":", " ">>,
    Rep("A", 100) }

DocxInit ==
  /\ call \in [paragraphs : UNION {[1..n -> ParagraphTexts] : n \in 0..MaxParagraphs}]
  /\ ret = <<>>
  /\ AtRest

\* One call of DOCXLoader.load.
LoadDocx ==
  /\ ret = <<>>
  /\ ret' = <<DOCXLoader_load(call.paragraphs, FileName("eu_ai_act"))>>
  /\ UNCHANGED <<call, pipeline_vars>>

DocxNext == LoadDocx

DocxSpec == DocxInit /\ [][DocxNext]_vars

(***************************************************************************)
(* ExcelLoader.load called on its own, on the sheets of a workbook.  A      *)
(* sheet is its name, the index label of its first data row and its data    *)
(* rows; a cell is empty (NaN), a number, a text, or an infinite number.    *)
(* The text of a unit is kept as its lines, each line as its wording and    *)
(* the values formatted into it.                                            *)
(***************************************************************************)
NaN == [kind |-> "nan"]
Num(n) == [kind |-> "num", n |-> n]
Txt(t) == [kind |-> "str", s |-> t]
Inf == [kind |-> "inf"]

\* pd.isna(value).
isna(cell) == cell.kind = "nan"

\* int(float(year)): the integer, "skip" when ValueError or TypeError is
\* raised and caught, "OverflowError" when the number is infinite.
int_float(cell) ==
  CASE cell.kind = "num" -> cell.n
    [] cell.kind = "str" -> "skip"
    [] cell.kind = "inf" -> "OverflowError"

\* Mutant of valid_year: years from 1800 on are taken.
valid_year_from_1800(cell) ==
  /\ ~isna(cell)
  /\ cell.kind = "num"
  /\ ~(cell.n < 1800 \/ cell.n > 2100)

\* The row passes the three tests of the loops over df.iterrows(): not NaN,
\* converts to an int, and not (year < 1900 or year > 2100).
valid_year(cell) ==
  /\ ~isna(cell)
  /\ cell.kind = "num"
  /\ ~(cell.n < 1900 \/ cell.n > 2100)

\* The first loop raises on a row: int(float(year)) overflows, which the
\* except clause (ValueError, TypeError) does not catch.
overflows(rows) == \E k \in 1..Len(rows) : rows[k].Year.kind = "inf"

months == <<"Jan", "Feb", "Mar", "Apr", "May", "Jun",
            "Jul", "Aug", "Sep", "Oct", "Nov", "Dec">>

\* monthly_data: the months whose column exists and whose cell is not NaN.
monthly_data(row) ==
  LET present == SelectSeq(months,
                           LAMBDA mo : mo \in DOMAIN row /\ ~isna(row[mo]))
  IN [k \in 1..Len(present) |-> <<present[k], row[present[k]]>>]

\* The summary unit of a sheet.
summary_unit(sheet, file_name) ==
  LET years == SelectSeq([k \in 1..Len(sheet.rows) |-> sheet.rows[k].Year],
                         LAMBDA c : ~isna(c))
      start_year == IF years # <<>> THEN years[1] ELSE Txt("unknown")
      end_year == IF years # <<>> THEN years[Len(years)] ELSE Txt("unknown")
  IN [text |-> << [line |-> "Sheet", sheet |-> sheet.name],
                  [line |-> "historical CPI data from to",
                   start_year |-> start_year, end_year |-> end_year],
                  [line |-> "Available data columns"],
                  [line |-> "This data can be used"] >>,
      sheet |-> sheet.name,
      row |-> "summary",
      source |-> file_name,
      doc_type |-> "excel"]

\* The unit of the data row k of a sheet, whose year is valid.
year_unit(sheet, k, file_name) ==
  LET row == sheet.rows[k]
      year == int_float(row.Year)
  IN [text |-> << [line |-> "Inflation data for year", year |-> year] >>
               \o (IF monthly_data(row) # <<>>
                     THEN << [line |-> "Monthly CPI values",
                              values |-> monthly_data(row)] >>
                     ELSE <<>>)
               \o (IF ~isna(row.Average)
                     THEN << [line |-> "Average annual CPI for", year |-> year,
                              avg |-> row.Average] >>
                     ELSE <<>>)
               \o << [line |-> "inflation data can be used", year |-> year],
                     [line |-> "To adjust a value from", year |-> year] >>,
      sheet |-> sheet.name,
      row |-> (sheet.first_label + (k - 1)) + 2,
      year |-> year,
      source |-> file_name,
      doc_type |-> "excel"]

\* decade = (year // 10) * 10.
decade_of(year) == (year \div 10) * 10

\* The rows of a sheet whose year is valid, as their places, in row order.
valid_rows(sheet) ==
  SelectSeq([k \in 1..Len(sheet.rows) |-> k],
            LAMBDA k : valid_year(sheet.rows[k].Year))

\* The keys of the dict decades, in insertion order: a decade is entered at
\* its first valid row, whether or not the row has an average.
decade_keys(sheet) ==
  LET v == valid_rows(sheet)
      d(j) == decade_of(int_float(sheet.rows[v[j]].Year))
      first == SelectSeq([j \in 1..Len(v) |-> j],
                         LAMBDA j : \A i \in 1..(j - 1) : d(i) # d(j))
  IN [j \in 1..Len(first) |-> d(first[j])]

\* decades[decade]: the (year, average) pairs of the valid rows of the decade
\* whose average cell is not NaN, in row order.
years_data(sheet, decade) ==
  LET rows == SelectSeq(valid_rows(sheet),
                        LAMBDA k : /\ decade_of(int_float(sheet.rows[k].Year)) = decade
                                   /\ ~isna(sheet.rows[k].Average))
  IN [j \in 1..Len(rows) |->
        <<int_float(sheet.rows[rows[j]].Year), sheet.rows[rows[j]].Average.n>>]

\* sorted(years_data): by year, then by average.
sorted(pairs) ==
  SortSeq(pairs, LAMBDA a, b : a[1] < b[1] \/ (a[1] = b[1] /\ a[2] < b[2]))

\* min(y[0] for y in years_data) and max(y[0] for y in years_data).
min_year(pairs) ==
  CHOOSE y \in {pairs[j][1] : j \in 1..Len(pairs)} :
    \A j \in 1..Len(pairs) : y <= pairs[j][1]
max_year(pairs) ==
  CHOOSE y \in {pairs[j][1] : j \in 1..Len(pairs)} :
    \A j \in 1..Len(pairs) : y >= pairs[j][1]

\* The unit of a decade whose years_data is not empty.
decade_unit(sheet, decade, file_name) ==
  LET data == years_data(sheet, decade)
      listed == sorted(data)
  IN [text |-> << [line |-> "Inflation data summary for the", decade |-> decade],
                  [line |-> "Years covered", min |-> min_year(data),
                   max |-> max_year(data)],
                  [line |-> "Year-by-year average CPI"] >>
               \o [j \in 1..Len(listed) |->
                     [line |-> "entry", year |-> listed[j][1], avg |-> listed[j][2]]],
      sheet |-> sheet.name,
      row |-> <<"decade_", decade>>,
      decade |-> decade,
      source |-> file_name,
      doc_type |-> "excel"]

\* The year units of a sheet: one per valid row, in row order.
year_units(sheet, file_name) ==
  LET v == valid_rows(sheet)
  IN [j \in 1..Len(v) |-> year_unit(sheet, v[j], file_name)]

\* The decade units of a sheet: for decade, years_data in decades.items(),
\* if years_data.
decade_units(sheet, file_name) ==
  LET keys == SelectSeq(decade_keys(sheet),
                        LAMBDA d : years_data(sheet, d) # <<>>)
  IN [j \in 1..Len(keys) |-> decade_unit(sheet, keys[j], file_name)]

\* Mutant of sheet_units: the summary is appended after the year units.
sheet_units_summary_late(sheet, file_name) ==
  year_units(sheet, file_name)
    \o <<summary_unit(sheet, file_name)>>
    \o decade_units(sheet, file_name)

\* What one iteration of for sheet_name in excel_file.sheet_names appends.
sheet_units(sheet, file_name) ==
  <<summary_unit(sheet, file_name)>>
    \o year_units(sheet, file_name)
    \o decade_units(sheet, file_name)

\* The units of the sheets from place s on.
RECURSIVE workbook_units(_, _, _)
workbook_units(workbook, s, file_name) ==
  IF s > Len(workbook) THEN <<>>
  ELSE sheet_units(workbook[s], file_name)
         \o workbook_units(workbook, s + 1, file_name)

\* ExcelLoader.load(file_path), given the sheets of the workbook: the units,
\* or the exception that the outer except clause re-raises.
ExcelLoader_load(workbook, file_name) ==
  IF \E s \in 1..Len(workbook) : overflows(workbook[s].rows)
    THEN [raised |-> "OverflowError", chunks |-> <<>>]
    ELSE [raised |-> "", chunks |-> workbook_units(workbook, 1, file_name)]

MaxRows == 3

\* A data row: its year cell and its average cell; the January cell holds a
\* number.
Row(year, average) == [Year |-> year, Jan |-> Num(21), Average |-> average]

\* The rows sheets are made of: no year, a text for a year, years just
\* outside and just inside [1900, 2100], an infinite year, years of one
\* decade out of order, years without an average.
DataRows ==
  { Row(NaN, Num(10)),
    Row(Txt("n/a"), Num(11)),
    Row(Num(1899), Num(12)),
    Row(Num(1900), Num(13)),
    Row(Num(2100), Num(14)),
    Row(Num(2101), Num(15)),
    Row(Inf, Num(16)),
    Row(Num(1958), Num(17)),
    Row(Num(1951), Num(18)),
    Row(Num(1951), NaN),
    Row(Num(1960), NaN) }

\* The workbooks the loader is called with: one sheet of up to MaxRows rows,
\* alone or followed by a second sheet.
Workbooks ==
  LET first == {[name |-> "CPI", first_label |-> l, rows |-> AsSeq(r, Len(r))] :
                  l \in {0, 1}, r \in UNION {[1..n -> DataRows] : n \in 0..MaxRows}}
      second == [name |-> "Notes", first_label |-> 1,
                 rows |-> <<Row(Num(1975), Num(19)), Row(Num(1899), Num(20))>>]
  IN {<<f>> : f \in first} \cup {<<f, second>> : f \in first}

ExcelInit ==
  /\ call \in [workbook : Workbooks]
  /\ ret = <<>>
  /\ AtRest

\* One call of ExcelLoader.load.
LoadExcel ==
  /\ ret = <<>>
  /\ ret' = <<ExcelLoader_load(call.workbook, FileName("inflation"))>>
  /\ UNCHANGED <<call, pipeline_vars>>

ExcelNext == LoadExcel

ExcelSpec == ExcelInit /\ [][ExcelNext]_vars

(***************************************************************************)
(* DocumentChunker._chunk_pdf and _chunk_docx called on one raw unit whose  *)
(* extracted text is made of lines: paragraphs parted by a blank line on a  *)
(* PDF page, lines parted by a line break in a DOCX section.                *)
(***************************************************************************)
MaxLines == 3
MidWords == 100

\* The lines of a unit: a short one and two long ones, each within the target
\* length, each of nine-letter words parted by single spaces.
UnitLines ==
  {Join(w9, n, <<" ">>) : n \in {ShortWords, MidWords, ManyWords}}

\* The boundary between two lines in the extracted text of a unit.
line_break(doc_type) == IF doc_type = "pdf" THEN <<"\n", "\n">> ELSE <<"\n">>

\* The lines i..j of a unit joined by sep.
RECURSIVE join_unit_lines(_, _, _, _)
join_unit_lines(lines, i, j, sep) ==
  IF i > j THEN <<>>
  ELSE IF i = j THEN lines[i]
  ELSE lines[i] \o sep \o join_unit_lines(lines, i + 1, j, sep)

\* The extracted text of a unit.
unit_text(doc_type, lines) ==
  join_unit_lines(lines, 1, Len(lines), line_break(doc_type))

UnitInit ==
  /\ call \in [doc_type : {"pdf", "docx"},
               lines : {AsSeq(f, Len(f)) : f \in SeqsUpTo(UnitLines, MaxLines)}
                         \ {<<>>}]
  /\ ret = <<>>
  /\ AtRest

\* One call of _chunk_pdf on a document of one page.
ChunkPdfUnit ==
  /\ ret = <<>>
  /\ call.doc_type = "pdf"
  /\ ret' = <<_chunk_pdf(<<pdf_page("attention", 1,
                                    unit_text("pdf", call.lines))>>,
                         "attention")>>
  /\ UNCHANGED <<call, pipeline_vars>>

\* One call of _chunk_docx on a document of one section.
ChunkDocxUnit ==
  /\ ret = <<>>
  /\ call.doc_type = "docx"
  /\ ret' = <<_chunk_docx(<<docx_section("eu_ai_act", 0,
                                         unit_text("docx", call.lines))>>,
                          "eu_ai_act")>>
  /\ UNCHANGED <<call, pipeline_vars>>

UnitNext == ChunkPdfUnit \/ ChunkDocxUnit

UnitSpec == UnitInit /\ [][UnitNext]_vars

(***************************************************************************)
(* ChunkQualityAnalyzer.  A percentage or an average the code computes as a *)
(* float is kept as the fraction num / den it is the value of.              *)
(***************************************************************************)
\* count / total * 100.
percentage(count, total) == [num |-> 100 * count, den |-> total]

\* str.rstrip(): the text without its trailing whitespace.
rstrip(text) ==
  LET kept == {i \in 1..Len(text) : text[i] \notin Whitespace}
  IN IF kept = {} THEN <<>>
     ELSE SubSeq(text, 1, CHOOSE i \in kept : \A j \in kept : j <= i)

\* str.split(): the maximal runs of characters that are not whitespace.
split(text) ==
  LET n == Len(text)
      starts == {i \in 1..n : /\ text[i] \notin Whitespace
                              /\ (i = 1 \/ text[i - 1] \in Whitespace)}
      word_end(i) == CHOOSE e \in i..n :
                       /\ \A j \in i..e : text[j] \notin Whitespace
                       /\ (e = n \/ text[e + 1] \in Whitespace)
      word(k) == LET i == CHOOSE i \in starts :
                            Cardinality({j \in starts : j < i}) = k - 1
                 IN SubSeq(text, i, word_end(i))
  IN [k \in 1..Cardinality(starts) |-> word(k)]

\* The values of a sequence, each once, in the order they first appear: the
\* key order of a dict filled from the sequence.
RECURSIVE first_seen(_, _)
first_seen(s, k) ==
  IF k > Len(s) THEN <<>>
  ELSE IF \E j \in 1..(k - 1) : s[j] = s[k] THEN first_seen(s, k + 1)
  ELSE <<s[k]>> \o first_seen(s, k + 1)

\* sum(sizes), min(sizes) and max(sizes).
RECURSIVE sum(_)
sum(sizes) == IF sizes = <<>> THEN 0 ELSE Head(sizes) + sum(Tail(sizes))
min(sizes) ==
  CHOOSE x \in {sizes[i] : i \in 1..Len(sizes)} :
    \A i \in 1..Len(sizes) : x <= sizes[i]
max(sizes) ==
  CHOOSE x \in {sizes[i] : i \in 1..Len(sizes)} :
    \A i \in 1..Len(sizes) : x >= sizes[i]

\* optimal_ranges.get(doc_type, (400, 1200)).
optimal_ranges(doc_type) ==
  CASE doc_type = "pdf" -> <<1000, 1800>>
    [] doc_type = "docx" -> <<900, 1500>>
    [] doc_type = "excel" -> <<200, 600>>
    [] OTHER -> <<400, 1200>>

\* The body of the loop of _analyze_size_distribution for one document type:
\* its issues and its entry of type_results.
type_issues(doc_type, type_chunks) ==
  LET n == Len(type_chunks)
      opt_min == optimal_ranges(doc_type)[1]
      opt_max == optimal_ranges(doc_type)[2]
      size(i) == type_chunks[i].metadata.char_count
      too_small == {i \in 1..n : 2 * size(i) < opt_min}
      too_large == {i \in 1..n : 10 * size(i) > 12 * opt_max}
      optimal == {i \in 1..n : opt_min <= size(i) /\ size(i) <= opt_max}
  IN (IF 10 * Cardinality(too_small) > n THEN <<"too_small">> ELSE <<>>)
       \o (IF 10 * Cardinality(too_large) > n THEN <<"too_large">> ELSE <<>>)
       \o (IF 100 * Cardinality(optimal) < 60 * n THEN <<"target_range">> ELSE <<>>)
type_results(doc_type, type_chunks) ==
  LET n == Len(type_chunks)
      opt_min == optimal_ranges(doc_type)[1]
      opt_max == optimal_ranges(doc_type)[2]
      sizes == [i \in 1..n |-> type_chunks[i].metadata.char_count]
  IN [avg_size |-> [num |-> sum(sizes), den |-> n],
      min_size |-> min(sizes),
      max_size |-> max(sizes),
      optimal_percentage |->
        percentage(Cardinality({i \in 1..n : opt_min <= sizes[i]
                                              /\ sizes[i] <= opt_max}), n),
      too_small |-> Cardinality({i \in 1..n : 2 * sizes[i] < opt_min}),
      too_large |-> Cardinality({i \in 1..n : 10 * sizes[i] > 12 * opt_max}),
      status |-> IF type_issues(doc_type, type_chunks) = <<>>
                   THEN "good" ELSE "warning"]

\* _analyze_size_distribution.
RECURSIVE overall_issues(_, _, _)
overall_issues(chunks, types, k) ==
  IF k > Len(types) THEN <<>>
  ELSE LET type_chunks == SelectSeq(chunks,
                                    LAMBDA c : c.metadata.doc_type = types[k])
           issues == type_issues(types[k], type_chunks)
       IN [i \in 1..Len(issues) |-> <<types[k], issues[i]>>]
            \o overall_issues(chunks, types, k + 1)
_analyze_size_distribution(chunks) ==
  LET types == first_seen([i \in 1..Len(chunks) |-> chunks[i].metadata.doc_type], 1)
      by_type == [t \in {types[k] : k \in 1..Len(types)} |->
                    type_results(t, SelectSeq(chunks,
                                              LAMBDA c : c.metadata.doc_type = t))]
      all_good == \A t \in DOMAIN by_type : by_type[t].status = "good"
  IN [by_type |-> by_type,
      types |-> types,
      overall_status |-> IF all_good THEN "good" ELSE "warning",
      issues |-> overall_issues(chunks, types, 1)]

\* text[0].islower() if text else False.
starts_lowercase(text) == text # <<>> /\ text[1] \in LowerCase

\* not text.rstrip().endswith(('.', '!', '?', '\n')) if text else True.
ends_incomplete(text) ==
  IF text # <<>>
    THEN LET t == rstrip(text)
         IN ~(t # <<>> /\ t[Len(t)] \in {".", "!", "?", "\n"})
    ELSE TRUE

\* The test of the loop of _analyze_semantic_coherence: the chunk adds to
\* good_breaks, not to broken_sentences.
good_break(text) == ~(starts_lowercase(text) \/ ends_incomplete(text))

\* _analyze_semantic_coherence, for at least one chunk.
_analyze_semantic_coherence(chunks) ==
  LET n == Len(chunks)
      good_breaks == Cardinality({i \in 1..n : good_break(chunks[i].text)})
      broken_sentences == Cardinality({i \in 1..n : ~good_break(chunks[i].text)})
  IN [coherence_score |-> percentage(good_breaks, n),
      good_breaks |-> good_breaks,
      broken_sentences |-> broken_sentences,
      status |-> IF 100 * good_breaks > 70 * n THEN "good" ELSE "warning"]

required_fields == <<"source", "doc_name", "doc_type", "chunk_index", "char_count">>

\* _analyze_metadata, for at least one chunk.
_analyze_metadata(chunks) ==
  LET n == Len(chunks)
      missing_metadata ==
        {<<i, f>> \in (1..n) \X (1..Len(required_fields)) :
           required_fields[f] \notin DOMAIN chunks[i].metadata}
      with_citation_info ==
        Cardinality({i \in 1..n :
                       DOMAIN chunks[i].metadata \cap {"page", "section", "row"} # {}})
  IN [complete |-> missing_metadata = {},
      citation_percentage |-> percentage(with_citation_info, n),
      missing_count |-> Cardinality(missing_metadata),
      status |-> IF missing_metadata = {} THEN "good" ELSE "error"]

\* sorted(source_chunks, key=lambda c: c.metadata['chunk_index']).
sorted_chunks(source_chunks) ==
  LET n == Len(source_chunks)
      rank(i) == Cardinality({j \in 1..n :
                   \/ source_chunks[j].metadata.chunk_index
                        < source_chunks[i].metadata.chunk_index
                   \/ /\ source_chunks[j].metadata.chunk_index
                           = source_chunks[i].metadata.chunk_index
                      /\ j < i})
  IN [k \in 1..n |-> source_chunks[CHOOSE i \in 1..n : rank(i) = k - 1]]

\* any(word in chunk2.split() for word in chunk1.split()[-10:]), chunk1 the
\* last 100 characters of one text and chunk2 the first 100 of the next.
overlap_detected(text1, text2) ==
  LET chunk1 == SubSeq(text1, IF Len(text1) > 100 THEN Len(text1) - 99 ELSE 1,
                       Len(text1))
      chunk2 == SubSeq(text2, 1, IF Len(text2) > 100 THEN 100 ELSE Len(text2))
      w1 == split(chunk1)
      w2 == split(chunk2)
  IN \E i \in 1..Len(w1) : \E j \in 1..Len(w2) :
       /\ i > Len(w1) - 10
       /\ w1[i] = w2[j]

\* _analyze_overlap.
_analyze_overlap(chunks) ==
  LET sources == {chunks[i].metadata.source : i \in 1..Len(chunks)}
      of(s) == sorted_chunks(SelectSeq(chunks, LAMBDA c : c.metadata.source = s))
      pairs == {<<s, i>> \in sources \X (1..Len(chunks)) : i < Len(of(s))}
      detected == {p \in pairs :
                     overlap_detected(of(p[1])[p[2]].text, of(p[1])[p[2] + 1].text)}
      total_comparisons == Cardinality(pairs)
      overlap_rate == IF total_comparisons > 0
                        THEN percentage(Cardinality(detected), total_comparisons)
                        ELSE [num |-> 0, den |-> 1]
      in_range == /\ 20 * overlap_rate.den <= overlap_rate.num
                  /\ overlap_rate.num <= 60 * overlap_rate.den
  IN [overlap_rate |-> overlap_rate,
      comparisons |-> total_comparisons,
      status |-> IF in_range THEN "good" ELSE "warning"]

\* _analyze_content_diversity, for at least one chunk.
_analyze_content_diversity(chunks) ==
  LET total == Len(chunks)
      docs == first_seen([i \in 1..total |-> chunks[i].metadata.doc_name], 1)
      by_doc(d) == Cardinality({i \in 1..total : chunks[i].metadata.doc_name = d})
      counts == [k \in 1..Len(docs) |-> by_doc(docs[k])]
      first_with(count) ==
        docs[CHOOSE k \in 1..Len(docs) :
               /\ counts[k] = count
               /\ \A j \in 1..(k - 1) : counts[j] # count]
  IN [distribution |-> [d \in {docs[k] : k \in 1..Len(docs)} |->
                          percentage(by_doc(d), total)],
      most_represented |-> first_with(max(counts)),
      least_represented |-> first_with(min(counts)),
      issues |-> (IF 100 * max(counts) > 60 * total
                    THEN <<"dominates">> ELSE <<>>)
                   \o (IF 100 * min(counts) < 5 * total
                         THEN <<"under_represented">> ELSE <<>>),
      status |-> IF 100 * max(counts) > 60 * total \/ 100 * min(counts) < 5 * total
                   THEN "warning" ELSE "good"]

\* The size recommendations of _generate_recommendations, one for each
\* document type whose status is warning with under 60% in the target range.
RECURSIVE size_recommendations(_, _)
size_recommendations(size_distribution, k) ==
  IF k > Len(size_distribution.types) THEN <<>>
  ELSE LET t == size_distribution.types[k]
           r == size_distribution.by_type[t]
       IN (IF /\ r.status = "warning"
              /\ r.optimal_percentage.num < 60 * r.optimal_percentage.den
             THEN << <<"adjust_chunk_size", t>> >> ELSE <<>>)
            \o size_recommendations(size_distribution, k + 1)

\* _generate_recommendations before its last statement: the recommendations
\* the analyses call for.
issue_recommendations(analysis) ==
  size_recommendations(analysis.size_distribution, 1)
    \o (IF analysis.semantic_coherence.coherence_score.num
             < 70 * analysis.semantic_coherence.coherence_score.den
          THEN << <<"adjust_separators">> >> ELSE <<>>)
    \o (LET overlap == analysis.overlap_effectiveness.overlap_rate
        IN IF overlap.num < 20 * overlap.den THEN << <<"increase_overlap">> >>
           ELSE IF overlap.num > 60 * overlap.den THEN << <<"decrease_overlap">> >>
           ELSE <<>>)
    \o (IF analysis.content_diversity.issues # <<>>
          THEN << <<"document_specific_parameters">> >> ELSE <<>>)

\* _generate_recommendations.
_generate_recommendations(analysis) ==
  LET recommendations == issue_recommendations(analysis)
  IN IF recommendations = <<>> THEN << <<"looks_good">> >> ELSE recommendations

\* analyze_all: the five analyses in the order of the dict display, then the
\* recommendations.  _analyze_size_distribution returns for no chunk; the
\* division by len(self.chunks) in _analyze_semantic_coherence raises.  The
\* analyzer assigns to no chunk: self.chunks is what it was given.
analyze_all(chunks) ==
  IF Len(chunks) = 0
    THEN [raised |-> "ZeroDivisionError", results |-> <<>>, chunks |-> chunks]
    ELSE LET analysis == [size_distribution |-> _analyze_size_distribution(chunks),
                          semantic_coherence |-> _analyze_semantic_coherence(chunks),
                          metadata_completeness |-> _analyze_metadata(chunks),
                          overlap_effectiveness |-> _analyze_overlap(chunks),
                          content_diversity |-> _analyze_content_diversity(chunks)]
         IN [raised |-> "",
             results |-> [size_distribution |-> analysis.size_distribution,
                          semantic_coherence |-> analysis.semantic_coherence,
                          metadata_completeness |-> analysis.metadata_completeness,
                          overlap_effectiveness |-> analysis.overlap_effectiveness,
                          content_diversity |-> analysis.content_diversity,
                          recommendations |-> _generate_recommendations(analysis)],
             chunks |-> chunks]

MaxChunks == 3

\* The texts of the chunks the analyzer is given: none, a sentence, a text cut
\* before its end, one that starts in lower case, one that ends with a line
\* break, one that ends with a space after its full stop.
QualityTexts ==
  {<<>>,
   <<"A", "b", ".">>,
   <<"A", "b">>,
   <<"a", "b", ".">>,
   <<"A", "b", "\n">>,
   <<"A", "b", ".", " ">>}

\* The chunk the chunker builds for a text, as chunk number chunk_index of a
\* PDF or of the spreadsheet.
quality_chunk(text, doc_name, chunk_index) ==
  IF doc_name = "attention"
    THEN pdf_chunk(text, pdf_page(doc_name, 1, text), doc_name, chunk_index)
    ELSE excel_chunk(text, excel_summary(doc_name, "CPI", text), doc_name,
                     chunk_index)

\* The chunk sequences the analyzer is given, chunk_index counting the chunks
\* of each document.
QualityChunks ==
  {[k \in 1..Len(f) |->
      quality_chunk(f[k][1], f[k][2],
                    Cardinality({j \in 1..(k - 1) : f[j][2] = f[k][2]})) ] :
     f \in SeqsUpTo(QualityTexts \X {"attention", "inflation"}, MaxChunks)}

QualityInit ==
  /\ call \in [chunks : QualityChunks]
  /\ ret = <<>>
  /\ AtRest

\* ChunkQualityAnalyzer(chunks).analyze_all().
AnalyzeAll ==
  /\ ret = <<>>
  /\ ret' = <<analyze_all(call.chunks)>>
  /\ UNCHANGED <<call, pipeline_vars>>

QualityNext == AnalyzeAll

QualitySpec == QualityInit /\ [][QualityNext]_vars

(***************************************************************************)
(* What the claims speak of.                                               *)
(***************************************************************************)
\* The chunks emitted so far for one document, in emission order.
ChunksOfDoc(d) == SelectSeq(all_chunks, LAMBDA c : c.metadata.doc_name = d)

\* The documents whose chunking has finished.
Chunked(d) ==
  \/ pc \in {"stats", "done"}
  \/ pc = "raised" /\ error = "KeyError"
  \/ pc = "chunk" /\ \E k \in 1..(doc_i - 1) : results[k][1] = d

\* The place of a document in the registry.
Position(d) == CHOOSE k \in 1..Len(DocNames) : DocNames[k] = d

\* The target length and the minimum length of a document type.
TargetLength(doc_type) ==
  CASE doc_type = "pdf" -> PDF_CHUNK_SIZE
    [] doc_type = "docx" -> DOCX_CHUNK_SIZE
    [] doc_type = "excel" -> EXCEL_CHUNK_SIZE
Floor(doc_type) == IF doc_type = "excel" THEN 20 ELSE 50

\* Does the chunk c carry the locator of the raw unit u.
SameLocator(c, u) ==
  CASE u.doc_type = "pdf" -> c.metadata.page = u.page
    [] u.doc_type = "docx" -> c.metadata.section = u.section
    [] u.doc_type = "excel" -> c.metadata.sheet = u.sheet /\ c.metadata.row = u.row

\* The raw unit the chunk c was cut from.
RawUnitOf(c) ==
  LET units == files[c.metadata.doc_name].units
  IN units[CHOOSE k \in 1..Len(units) : SameLocator(c, units[k])]

(***************************************************************************)
(* C1.  For every document the chunk_index values of its chunks are        *)
(* exactly 0 .. n-1, n being the number of chunks emitted for it: no gap,   *)
(* no duplicate, for pdf, docx and excel alike.                             *)
(***************************************************************************)
C1_IndexContiguity ==
  \A d \in DocNameSet :
    Chunked(d) =>
      LET cs == ChunksOfDoc(d)
      IN /\ {cs[k].metadata.chunk_index : k \in 1..Len(cs)} = 0..(Len(cs) - 1)
         /\ \A i, j \in 1..Len(cs) :
              i # j => cs[i].metadata.chunk_index # cs[j].metadata.chunk_index

(***************************************************************************)
(* C2.  Within one run no two emitted chunks have the same chunk_id.        *)
(***************************************************************************)
C2_UniqueChunkIds ==
  \A i, j \in 1..Len(all_chunks) :
    i # j => all_chunks[i].chunk_id # all_chunks[j].chunk_id

(***************************************************************************)
(* C4.  Every chunk cut from a raw unit whose normalized text is longer     *)
(* than the target length of its type has char_count <= that target.       *)
(***************************************************************************)
C4_LengthBound ==
  \A k \in 1..Len(all_chunks) :
    LET c == all_chunks[k]
        target == TargetLength(c.metadata.doc_type)
    IN Len(_clean_text(RawUnitOf(c).text)) > target
         => c.metadata.char_count <= target

(***************************************************************************)
(* C5.  No chunk is emitted whose char_count is below the floor of its      *)
(* type: 50 for pdf and docx, 20 for excel.                                 *)
(***************************************************************************)
C5_MinimumLength ==
  \A k \in 1..Len(all_chunks) :
    all_chunks[k].metadata.char_count >= Floor(all_chunks[k].metadata.doc_type)

\* C5 witness: the pipeline returned, a split of a page was under the floor
\* and dropped, and a chunk was emitted whose text is longer than its trimmed
\* text.
C5_Witness ==
  /\ pc = "done"
  /\ files.attention.readable
  /\ \E u \in 1..Len(files.attention.units) :
       LET splits == pdf_splitter(_clean_text(files.attention.units[u].text))
       IN \E k \in 1..Len(splits) : Len(strip(splits[k])) < 50
  /\ \E k \in 1..Len(all_chunks) :
       Len(strip(all_chunks[k].text)) < Len(all_chunks[k].text)

(***************************************************************************)
(* C6.  For every emitted chunk, metadata['char_count'] is the length of    *)
(* the chunk's text.                                                        *)
(***************************************************************************)
C6_CharCount ==
  \A k \in 1..Len(all_chunks) :
    all_chunks[k].metadata.char_count = Len(all_chunks[k].text)

\* C6 witness: chunks of all three types were emitted, one of them with
\* leading whitespace in its text.
C6_Witness ==
  /\ pc = "done"
  /\ \A t \in {"pdf", "docx", "excel"} :
       \E k \in 1..Len(all_chunks) : all_chunks[k].metadata.doc_type = t
  /\ \E k \in 1..Len(all_chunks) : all_chunks[k].text[1] = " "

(***************************************************************************)
(* C8.  The chunk sequence lists the documents in registration order, the   *)
(* chunks of one document are contiguous, and within a document             *)
(* chunk_index never decreases.                                             *)
(***************************************************************************)
OrderedChunks(chunks) ==
  \A i, j \in 1..Len(chunks) :
    i < j =>
      /\ Position(chunks[i].metadata.doc_name) <= Position(chunks[j].metadata.doc_name)
      /\ chunks[i].metadata.doc_name = chunks[j].metadata.doc_name
           => chunks[i].metadata.chunk_index <= chunks[j].metadata.chunk_index

C8_Order == OrderedChunks(all_chunks) /\ OrderedChunks(returned)

\* C8 witness: the pipeline returned chunks of all four documents.
C8_Witness ==
  /\ pc = "done"
  /\ \A d \in DocNameSet :
       \E k \in 1..Len(returned) : returned[k].metadata.doc_name = d

RECURSIVE ChunksWithout(_)
ChunksWithout(k) ==
  IF k > Len(DocNames) THEN <<>>
  ELSE (IF files[DocNames[k]].readable
          THEN chunks_of(DocNames[k], files[DocNames[k]].units)
          ELSE <<>>)
       \o ChunksWithout(k + 1)

Loaded == pc \in {"chunk", "stats", "done"} \/ (pc = "raised" /\ error = "KeyError")

\* C9: a failing loader costs its own document only; the others are loaded and
\* chunked as if it had not been configured.
C9_LoaderFailureIsolated ==
  /\ \A k \in 1..Len(results) :
       /\ results[k][1] = DocNames[k]
       /\ results[k][2] = IF files[DocNames[k]].readable
                            THEN files[DocNames[k]].units ELSE <<>>
  /\ Loaded => Len(results) = Len(DocNames)
  /\ pc = "raised" =>
       \/ error = "ValueError" /\ Config_errors(env, files) # <<>>
       \/ error = "KeyError" /\ all_chunks = <<>>
  /\ (pc \in {"stats", "done"} \/ (pc = "raised" /\ error = "KeyError"))
       => all_chunks = ChunksWithout(1)

\* C9 witness: exactly one loader raised, that of the second document, and
\* the pipeline returned the chunks of the three other documents.
C9_Witness ==
  /\ pc = "done"
  /\ \A d \in DocNameSet : files[d].readable <=> d # "attention"
  /\ results[2] = <<"attention", <<>> >>
  /\ \A d \in DocNameSet \ {"attention"} :
       \E k \in 1..Len(returned) : returned[k].metadata.doc_name = d

(***************************************************************************)
(* C10.  When the file of exactly one configured document is missing, only  *)
(* that document is aborted: it is recorded with zero chunks and the        *)
(* pipeline still loads and chunks all other configured documents.          *)
(***************************************************************************)
Missing == {d \in DocNameSet : ~files[d].exists}

KeysAndDataDir == env.GITHUB_TOKEN /\ env.PINECONE_API_KEY /\ env.DATA_DIR

\* C10: exactly one missing file aborts that document only.
C10_MissingFileIsolated ==
  (Cardinality(Missing) = 1 /\ KeysAndDataDir) =>
    /\ ~(pc = "raised" /\ error = "ValueError")
    /\ Loaded =>
         \A k \in 1..Len(results) :
           results[k] = <<DocNames[k], IF DocNames[k] \in Missing
                                         THEN <<>>
                                         ELSE files[DocNames[k]].units>>

(***************************************************************************)
(* C10, amended.  When the file of a configured document is missing,        *)
(* Config.validate raises at the start of load_all_documents: no loader is  *)
(* invoked, no document is recorded or chunked, nothing is returned.        *)
(***************************************************************************)
C10_MissingFileAbortsRun ==
  (Missing # {} /\ pc # "start") =>
    /\ pc = "raised"
    /\ error = "ValueError"
    /\ results = <<>>
    /\ all_chunks = <<>>
    /\ returned = <<>>

\* C10 witness: exactly one file is missing, the configuration is complete
\* otherwise, and the run has raised.
C10_Witness ==
  /\ Cardinality(Missing) = 1
  /\ KeysAndDataDir
  /\ \A d \in DocNameSet \ Missing : files[d].readable
  /\ pc = "raised"

(***************************************************************************)
(* C7.  _generate_chunk_id(text, source, index) depends only on its three   *)
(* arguments and returns '{sanitized_source}_{index}_{hash}', hash being    *)
(* the first 8 hex characters of the digest of text and sanitized_source    *)
(* being source with every character other than a letter, a digit or an     *)
(* underscore replaced by an underscore.                                    *)
(***************************************************************************)
\* source with every character outside keep replaced by an underscore.
Sanitized(source, keep) ==
  AsSeq([i \in 1..Len(source) |-> IF source[i] \in keep THEN source[i] ELSE "_"],
        Len(source))

\* The id in the stated format, for a given set of characters that are kept.
IdFormat(text, source, index, keep) ==
  Sanitized(source, keep) \o <<"_">> \o str(index) \o <<"_">>
    \o AsSeq(hexdigest8(md5(text)), 8)

\* C7: the id is the stated format of the three arguments, every non-word
\* character of the source replaced.
C7_ChunkIdFormat ==
  \A k \in 1..Len(ret) :
    AsSeq(ret[k], Len(ret[k])) = IdFormat(call.text, call.source, call.index, WordChars)

(***************************************************************************)
(* C7, amended.  As C7, but sanitized_source keeps the hyphen as well:      *)
(* every character other than a letter, a digit, an underscore or a hyphen  *)
(* is replaced by an underscore.                                            *)
(***************************************************************************)
C7_ChunkIdFormatKeepsHyphen ==
  \A k \in 1..Len(ret) :
    AsSeq(ret[k], Len(ret[k]))
      = IdFormat(call.text, call.source, call.index, WordChars \cup {"-"})

\* C7 witness: the function was called twice, each time from another process,
\* with a source that holds a hyphen, a dot and a space, and a two-digit index.
C7_Witness ==
  /\ Len(ret) = MaxCalls
  /\ run = 1 + MaxCalls
  /\ call.source = FileName("deepseek")
  /\ call.index >= 10
  /\ call.text # <<>>

(***************************************************************************)
(* C11.  Configuration is validated before any loader is invoked; when     *)
(* several problems exist at once (GITHUB_TOKEN unset, PINECONE_API_KEY     *)
(* unset, data directory absent, documents missing) one error is raised     *)
(* whose message names every one of them; when no problem exists no error   *)
(* is raised.                                                               *)
(***************************************************************************)
\* The lines of the raised message with a given text.
Lines(text) == SelectSeq(message, LAMBDA l : l.text = text)

\* The message has the line of a problem once when the problem exists, and
\* not at all when it does not.
Named(problem, text) == Len(Lines(text)) = (IF problem THEN 1 ELSE 0)

NoProblem == KeysAndDataDir /\ Missing = {}

C11_ValidationAggregated ==
  /\ results # <<>> => NoProblem
  /\ (pc # "start" /\ NoProblem) => (error # "ValueError" /\ message = <<>>)
  /\ (pc # "start" /\ ~NoProblem) =>
       /\ pc = "raised"
       /\ error = "ValueError"
       /\ results = <<>>
       /\ Named(~env.GITHUB_TOKEN, "GITHUB_TOKEN not set in .env")
       /\ Named(~env.PINECONE_API_KEY, "PINECONE_API_KEY not set in .env")
       /\ Named(~env.DATA_DIR, "Data directory not found")
       /\ Named(Missing # {}, "Missing documents")
       /\ \A d \in DocNameSet :
            d \in Missing <=>
              \E k \in 1..Len(message) :
                \E j \in 1..Len(message[k].names) : message[k].names[j] = d

\* C11 witness: both keys are unset and two documents are missing while the
\* data directory exists, and the one error raised lists the three problems.
C11_Witness ==
  /\ pc = "raised"
  /\ ~env.GITHUB_TOKEN /\ ~env.PINECONE_API_KEY /\ env.DATA_DIR
  /\ Cardinality(Missing) = 2
  /\ Len(message) = 3

(***************************************************************************)
(* C12.  Every emitted chunk carries in its metadata the keys source,       *)
(* doc_name, doc_type, chunk_index and char_count and the locator keys      *)
(* get_citation reads for its doc_type (page; section; sheet and row), so   *)
(* get_citation never falls back to the bare source name for it.            *)
(***************************************************************************)
LocatorKeys(doc_type) ==
  CASE doc_type = "pdf" -> {"page"}
    [] doc_type = "docx" -> {"section"}
    [] doc_type = "excel" -> {"sheet", "row"}
    [] OTHER -> {}

C12_CitationKeys ==
  \A k \in 1..Len(all_chunks) :
    LET m == all_chunks[k].metadata
        citation == get_citation(RetrievedChunk(stored_metadata(all_chunks[k])))
    IN /\ {"source", "doc_name", "doc_type", "chunk_index", "char_count"}
            \subseteq DOMAIN m
       /\ m.doc_type \in {"pdf", "docx", "excel"}
       /\ LocatorKeys(m.doc_type) \subseteq DOMAIN m
       /\ Len(citation) > 1
       /\ citation[1] = m.source
       /\ \A key \in LocatorKeys(m.doc_type) :
            \E j \in 2..(Len(citation) - 1) :
              citation[j] = key /\ citation[j + 1] = m[key]

\* C12 witness: the pipeline returned a pdf chunk, a docx chunk and an excel
\* chunk, and the citation of the excel chunk names its sheet and its row.
C12_Witness ==
  /\ pc = "done"
  /\ \A t \in {"pdf", "docx", "excel"} :
       \E k \in 1..Len(returned) : returned[k].metadata.doc_type = t
  /\ \E k \in 1..Len(returned) :
       Len(get_citation(RetrievedChunk(stored_metadata(returned[k])))) = 5

(***************************************************************************)
(* C13.  Every chunk produced from a tabular raw unit carries the locator   *)
(* fields of the unit in its metadata: sheet and row always, year when the  *)
(* unit has a year, decade when the unit has a decade.                      *)
(***************************************************************************)
C13_ExcelLocatorsCarried ==
  \A k \in 1..Len(all_chunks) :
    all_chunks[k].metadata.doc_type = "excel" =>
      LET m == all_chunks[k].metadata
          u == RawUnitOf(all_chunks[k])
      IN \A key \in {"sheet", "row", "year", "decade"} :
           key \in DOMAIN u => (key \in DOMAIN m /\ m[key] = u[key])

(***************************************************************************)
(* C14.  For every input string, _clean_text returns a string with no run   *)
(* of two or more whitespace characters, no control character and no        *)
(* leading or trailing whitespace; it returns the empty string for empty,   *)
(* all-whitespace or all-control input.                                     *)
(***************************************************************************)
C14_CleanTextNormalForm ==
  ret # <<>> =>
    LET out == ret[1]
        n == Len(out)
    IN /\ \A i \in 1..(n - 1) :
            ~(out[i] \in Whitespace /\ out[i + 1] \in Whitespace)
       /\ \A i \in 1..n : out[i] \notin ControlChars
       /\ n > 0 => (out[1] \notin Whitespace /\ out[n] \notin Whitespace)
       /\ (\A i \in 1..Len(call.text) :
             call.text[i] \in Whitespace \cup ControlChars) => out = <<>>

(***************************************************************************)
(* C15.  A second run of the indexing pipeline over an unchanged corpus     *)
(* leaves the index holding the same set of ids as after the first run: no  *)
(* unchanged chunk is stored twice and the vector count does not grow,      *)
(* whether or not the clear step of the second run succeeds.                *)
(***************************************************************************)
Ids(stored) == {v.id : v \in stored}

ReindexDone == run = 2 /\ pc = "indexed"

CorpusIds == {returned[k].chunk_id : k \in 1..Len(returned)}

NonEmpty ==
  SelectSeq([k \in 1..Len(call.paragraphs) |-> strip(call.paragraphs[k])],
            LAMBDA t : t # <<>>)

\* A header among the trimmed paragraphs, stated on its own.
Header(t) ==
  /\ Len(t) < 100
  /\ \/ t[Len(t)] = ":"
     \/ (\E i \in 1..Len(t) : t[i] \in UpperCase)
          /\ ~(\E i \in 1..Len(t) : t[i] \in LowerCase)

\* The places of NonEmpty where a run starts, and the run that starts at one.
RunStarts == {i \in 1..Len(NonEmpty) : i = 1 \/ Header(NonEmpty[i])}

RunEnd(i) ==
  IF \E j \in RunStarts : j > i
    THEN (CHOOSE j \in RunStarts : j > i /\ \A l \in RunStarts : l > i => j <= l) - 1
    ELSE Len(NonEmpty)

\* The newline-join of the run that starts at place i.
RunText(i) == join_lines(SubSeq(NonEmpty, i, RunEnd(i)))

\* The run texts in paragraph order.
RunTexts ==
  LET paragraphs == NonEmpty
      starts == SelectSeq([i \in 1..Len(paragraphs) |-> i],
                          LAMBDA i : i = 1 \/ Header(paragraphs[i]))
      last(r) == IF r < Len(starts) THEN starts[r + 1] - 1 ELSE Len(paragraphs)
  IN [r \in 1..Len(starts) |->
        join_lines(SubSeq(paragraphs, starts[r], last(r)))]

C16_DocxSections ==
  ret # <<>> =>
    LET emitted == SelectSeq(RunTexts, LAMBDA t : Len(t) > 100)
    IN /\ Len(ret[1]) = Len(emitted)
       /\ \A k \in 1..Len(emitted) : ret[1][k].text = emitted[k]

\* C16 witness: a short run was dropped at a header, the run the header
\* starts was flushed after the last paragraph, and blank paragraphs were
\* passed over.
C16_Witness ==
  /\ ret # <<>>
  /\ Len(ret[1]) = 1
  /\ Cardinality(RunStarts) = 2
  /\ Len(NonEmpty) < Len(call.paragraphs)
  /\ Len(RunText(1)) <= 100

(***************************************************************************)
(* C17.  When a header arrives and the accumulated section's joined length  *)
(* is 100 characters or less, the section is merged forward: its            *)
(* paragraphs appear in the text of the next emitted section, so no         *)
(* non-empty paragraph is missing from the output solely because its        *)
(* section was short.                                                       *)
(***************************************************************************)
C17_ShortSectionMergedForward ==
  ret # <<>> =>
    \A i \in RunStarts :
      (/\ Len(RunText(i)) <= 100
       /\ \E j \in RunStarts : j > i /\ Len(RunText(j)) > 100)
      => \E k \in 1..Len(ret[1]) : Contains(ret[1][k].text, RunText(i))

(***************************************************************************)
(* What the claims on ExcelLoader.load speak of.                            *)
(***************************************************************************)
\* The call returned (it did not raise), and the units it returned.
Returned == ret # <<>> /\ ret[1].raised = ""
Units == ret[1].chunks

IsYearUnit(u) == "year" \in DOMAIN u
IsDecadeUnit(u) == "decade" \in DOMAIN u
IsSummaryUnit(u) == ~IsYearUnit(u) /\ ~IsDecadeUnit(u)

\* The places of the units of a sheet in the returned list.
UnitsOfSheet(name) == {k \in 1..Len(Units) : Units[k].sheet = name}

\* A year cell that is a year: a number in [1900, 2100].
IsYear(cell) == cell.kind = "num" /\ cell.n >= 1900 /\ cell.n <= 2100

\* The years of the rows of a sheet that are years, in row order.
YearsOf(sheet) ==
  LET cells == SelectSeq([k \in 1..Len(sheet.rows) |-> sheet.rows[k].Year], IsYear)
  IN [j \in 1..Len(cells) |-> cells[j].n]

\* The years a decade unit lists, in the order of its lines.
ListedYears(u) ==
  LET entries == SelectSeq(u.text, LAMBDA l : l.line = "entry")
  IN [j \in 1..Len(entries) |-> entries[j].year]

(***************************************************************************)
(* C18.  For each sheet, in sheet order, ExcelLoader.load emits exactly one *)
(* summary unit first, then one year unit per data row whose year is        *)
(* valid, in row order, then the decade units; no unit of a later sheet     *)
(* precedes a unit of an earlier sheet.                                     *)
(***************************************************************************)
C18_ExcelUnitOrder ==
  Returned =>
    /\ \A k \in 1..Len(Units) :
         \E s \in 1..Len(call.workbook) : Units[k].sheet = call.workbook[s].name
    /\ \A s, t \in 1..Len(call.workbook) :
         s < t => \A i \in UnitsOfSheet(call.workbook[s].name) :
                    \A j \in UnitsOfSheet(call.workbook[t].name) : i < j
    /\ \A s \in 1..Len(call.workbook) :
         LET sheet == call.workbook[s]
             at == UnitsOfSheet(sheet.name)
             sums == {k \in at : IsSummaryUnit(Units[k])}
             yrs == {k \in at : IsYearUnit(Units[k])}
             decs == {k \in at : IsDecadeUnit(Units[k])}
             yearseq == SelectSeq([k \in 1..Len(Units) |-> k], LAMBDA k : k \in yrs)
         IN /\ Cardinality(sums) = 1
            /\ \A k \in sums : Units[k].row = "summary" /\ \A j \in at : k <= j
            /\ \A i \in yrs : \A j \in decs : i < j
            /\ [j \in 1..Len(yearseq) |-> Units[yearseq[j]].year] = YearsOf(sheet)

\* C18 witness: two sheets were loaded, the first with two year units in row
\* order and a decade unit, the second with its own summary, year and
\* decade units after them.
C18_Witness ==
  /\ Returned
  /\ Len(call.workbook) = 2
  /\ Cardinality({k \in UnitsOfSheet("CPI") : IsYearUnit(Units[k])}) = 2
  /\ \E k \in UnitsOfSheet("CPI") : IsDecadeUnit(Units[k])
  /\ Cardinality(UnitsOfSheet("Notes")) = 3

(***************************************************************************)
(* C19.  Every year unit ExcelLoader.load emits has a year in [1900, 2100]; *)
(* a data row whose first-column value is empty, does not parse to a        *)
(* number, or parses to a year outside [1900, 2100] produces no year unit   *)
(* and contributes to no decade unit, and every year a decade unit lists    *)
(* is the year of an emitted year unit of the same sheet.                   *)
(***************************************************************************)
\* The Excel row number the loader gives the data row k of a sheet.
RowNumber(sheet, k) == sheet.first_label + (k - 1) + 2

C19_ExcelValidYears ==
  Returned =>
    /\ \A k \in 1..Len(Units) :
         IsYearUnit(Units[k]) => (Units[k].year >= 1900 /\ Units[k].year <= 2100)
    /\ \A s \in 1..Len(call.workbook) :
         LET sheet == call.workbook[s]
             at == UnitsOfSheet(sheet.name)
             yrs == {k \in at : IsYearUnit(Units[k])}
             decs == {k \in at : IsDecadeUnit(Units[k])}
         IN /\ \A r \in 1..Len(sheet.rows) :
                 ~IsYear(sheet.rows[r].Year) =>
                   \A k \in yrs : Units[k].row # RowNumber(sheet, r)
            /\ \A k \in decs :
                 \A j \in 1..Len(ListedYears(Units[k])) :
                   LET y == ListedYears(Units[k])[j]
                   IN /\ \E i \in yrs : Units[i].year = y
                      /\ \E r \in 1..Len(sheet.rows) :
                           IsYear(sheet.rows[r].Year) /\ sheet.rows[r].Year.n = y
                      /\ decade_of(y) = Units[k].decade

\* C19 witness: a sheet with a text for a year, a year under 1900 and a
\* valid year was loaded: one year unit and one decade unit came of it.
C19_Witness ==
  /\ Returned
  /\ Len(call.workbook) = 1
  /\ \E r \in 1..Len(call.workbook[1].rows) :
       call.workbook[1].rows[r].Year.kind = "str"
  /\ \E r \in 1..Len(call.workbook[1].rows) :
       call.workbook[1].rows[r].Year = Num(1899)
  /\ Cardinality({k \in 1..Len(Units) : IsYearUnit(Units[k])}) = 1
  /\ Cardinality({k \in 1..Len(Units) : IsDecadeUnit(Units[k])}) = 1

(***************************************************************************)
(* C20.  For each sheet and each decade that contains at least one valid    *)
(* year row, ExcelLoader.load emits exactly one decade unit with that       *)
(* decade, and the unit lists every valid year row of the decade, in        *)
(* ascending year order, including years whose average cell is empty.       *)
(***************************************************************************)
\* The years of the valid rows of a decade of a sheet, in row order.
YearsOfDecade(sheet, d) == SelectSeq(YearsOf(sheet), LAMBDA y : (y \div 10) * 10 = d)

C20_ExcelDecadeUnits ==
  Returned =>
    \A s \in 1..Len(call.workbook) :
      LET sheet == call.workbook[s]
          decs == {k \in UnitsOfSheet(sheet.name) : IsDecadeUnit(Units[k])}
      IN \A j \in 1..Len(YearsOf(sheet)) :
           LET d == (YearsOf(sheet)[j] \div 10) * 10
               of_d == {k \in decs : Units[k].decade = d}
           IN /\ Cardinality(of_d) = 1
              /\ \A k \in of_d :
                   LET listed == ListedYears(Units[k])
                   IN /\ Len(listed) = Len(YearsOfDecade(sheet, d))
                      /\ \A y \in {YearsOfDecade(sheet, d)[i] :
                                     i \in 1..Len(YearsOfDecade(sheet, d))} :
                           \E i \in 1..Len(listed) : listed[i] = y
                      /\ \A i \in 1..(Len(listed) - 1) : listed[i] <= listed[i + 1]

(***************************************************************************)
(* C21.  Inside a readable sheet no cell content makes ExcelLoader.load     *)
(* fail: for every value of a year cell (empty, text, out-of-range number,  *)
(* infinite number) and every missing month or average cell, the row or     *)
(* field is skipped and all other rows of the sheet and all other sheets    *)
(* still produce their units.                                               *)
(***************************************************************************)
C21_ExcelCellsTolerated ==
  ret # <<>> =>
    /\ ret[1].raised = ""
    /\ \A s \in 1..Len(call.workbook) :
         LET sheet == call.workbook[s]
             at == UnitsOfSheet(sheet.name)
         IN /\ \E k \in at : IsSummaryUnit(Units[k])
            /\ \A j \in 1..Len(YearsOf(sheet)) :
                 \E k \in at : IsYearUnit(Units[k]) /\ Units[k].year = YearsOf(sheet)[j]

\* The overlap the splitter of a document type is configured with.
Overlap(doc_type) == IF doc_type = "excel" THEN 50 ELSE 200

(***************************************************************************)
(* C22.  Any two chunks of one document that are consecutive in            *)
(* chunk_index order overlap by the configured overlap (200 characters for  *)
(* pdf and docx, 50 for excel): the suffix of that length of the earlier    *)
(* chunk equals the prefix of that length of the later one, also when the   *)
(* two come from different pages or sections and when a piece between them  *)
(* was removed by the minimum-length filter.                                *)
(***************************************************************************)
C22_ConsecutiveChunksOverlap ==
  \A d \in DocNameSet :
    Chunked(d) =>
      LET cs == ChunksOfDoc(d)
      IN \A k \in 1..(Len(cs) - 1) :
           LET a == cs[k].text
               b == cs[k + 1].text
               n == Overlap(cs[k].metadata.doc_type)
           IN /\ Len(a) >= n
              /\ Len(b) >= n
              /\ SubSeq(a, Len(a) - n + 1, Len(a)) = SubSeq(b, 1, n)

(***************************************************************************)
(* C23.  The separators are tried in their configured order on the text of  *)
(* the raw unit: when a pdf or docx unit is longer than the target length   *)
(* and its extracted text has newline boundaries (a blank line on a page, a *)
(* line break in a section) that cut it into pieces within the target, the  *)
(* chunk boundaries are at those newline boundaries rather than at '. ' or  *)
(* ' ': every chunk is a run of whole lines of the unit.                    *)
(***************************************************************************)
C23_NewlineBoundariesPreferred ==
  ret # <<>> =>
    LET lines == call.lines
        target == TargetLength(call.doc_type)
    IN (/\ Len(unit_text(call.doc_type, lines)) > target
        /\ \A i \in 1..Len(lines) : Len(lines[i]) <= target)
       => \A k \in 1..Len(ret[1]) :
            \E i \in 1..Len(lines) : \E j \in i..Len(lines) :
              ret[1][k].text = join_unit_lines(lines, i, j, <<" ">>)

\* The chunks a document gives when it is processed with nothing before it:
\* its own raw units, chunk_index from 0.
ChunksAlone(d) ==
  LET units == files[d].units
  IN IF ~(files[d].exists /\ files[d].readable) \/ units = <<>> THEN <<>>
     ELSE CASE units[1].doc_type = "pdf" -> pdf_units(units, 1, d, 0)
            [] units[1].doc_type = "docx" -> docx_units(units, 1, d, 0)
            [] units[1].doc_type = "excel" -> excel_units(units, 1, d)

C25_AnalyzeAllAdvisory ==
  ret # <<>> =>
    /\ ret[1].raised = ""
    /\ ret[1].results.recommendations # <<>>
    /\ ret[1].chunks = call.chunks

\* A text that does not start with a lower-case letter and ends with terminal
\* punctuation or a line break.
CleanBreak(text) ==
  /\ text # <<>>
  /\ text[1] \notin LowerCase
  /\ text[Len(text)] \in {".", "!", "?", "\n"}

(***************************************************************************)
(* C26.  _analyze_semantic_coherence counts a chunk as a clean break        *)
(* exactly when its text does not start with a lower-case letter and ends   *)
(* with terminal punctuation ('.', '!', '?') or a line break, so that a     *)
(* chunk starting in upper case and ending with a line break is clean; and  *)
(* good_breaks + broken_sentences is the number of chunks.                  *)
(***************************************************************************)
C26_CleanBreakCount ==
  (ret # <<>> /\ ret[1].raised = "") =>
    LET chunks == call.chunks
        coherence == ret[1].results.semantic_coherence
    IN /\ coherence.good_breaks
            = Cardinality({i \in 1..Len(chunks) : CleanBreak(chunks[i].text)})
       /\ coherence.good_breaks + coherence.broken_sentences = Len(chunks)

(***************************************************************************)
(* C27.  process_documents returns the chunk sequence for every outcome of  *)
(* loading: when every document fails to load, or yields no chunk above the *)
(* minimum length, it returns the empty sequence and does not raise.        *)
(***************************************************************************)
C27_ReturnsForEveryLoadOutcome ==
  (Loaded /\ pc \notin {"chunk", "stats"}) => (pc = "done" /\ returned = all_chunks)

(***************************************************************************)
(* C28.  After upload_chunks has returned normally the vector ids in the    *)
(* index are exactly the chunk_ids it was passed: every chunk is there and  *)
(* no vector of an earlier upload is left, whatever the index held before   *)
(* and whatever the outcome of the clear step.                              *)
(***************************************************************************)
C28_IndexHoldsExactlyTheChunks ==
  pc = "indexed" => Ids(pinecone_index) = CorpusIds

\* The run failed between the saving of the chunks and the reset of the index:
\* the embedding API raised, or upload_chunks found the counts to differ.
EmbeddingFailed == pc = "raised" /\ error \in {"APIError", "ValueError"}

LineAt(text, i) ==
  SubSeq(text, i, CHOOSE e \in i..Len(text) :
                    /\ \A j \in i..e : text[j] # "\n"
                    /\ (e = Len(text) \/ text[e + 1] = "\n"))

\* The section numbers of the emitted units.
SectionNumbers == {ret[1][k].section : k \in 1..Len(ret[1])}

(***************************************************************************)
(* C30.  In the output of DOCXLoader.load, for every paragraph sequence: a  *)
(* header paragraph can only be the first paragraph of a section's text;    *)
(* the section numbers of the emitted units are strictly increasing in      *)
(* output order; and a number is missing from the emitted numbering exactly *)
(* when the section that held it was dropped for having 100 characters or   *)
(* fewer.                                                                   *)
(***************************************************************************)
C30_DocxHeadersAndNumbers ==
  ret # <<>> =>
    LET out == ret[1]
        runs == RunTexts
        numbers == SectionNumbers
    IN /\ \A k \in 1..Len(out) : \A i \in 2..Len(out[k].text) :
            out[k].text[i - 1] = "\n" => ~Header(LineAt(out[k].text, i))
       /\ \A k \in 1..(Len(out) - 1) : out[k].section < out[k + 1].section
       /\ numbers \subseteq 0..(Len(runs) - 1)
       /\ \A n \in 0..(Len(runs) - 1) :
            n \notin numbers <=> Len(runs[n + 1]) <= 100

\* A short first section was dropped and the section its header starts was
\* emitted: number 0 is missing, the one unit carries number 1 and has its
\* header as first line.
C30_Witness ==
  /\ ret # <<>>
  /\ Len(ret[1]) = 1
  /\ ret[1][1].section = 1
  /\ Header(LineAt(ret[1][1].text, 1))
  /\ Len(RunTexts) = 2
  /\ Len(RunTexts[1]) <= 100
====
